---- MODULE Spec2Model ----
\* PawsPlace: listing filter/sort pipeline, backend client adapter, search bar
\* and session holder, modelled from the JavaScript sources.
EXTENDS Integers, Sequences, FiniteSets, TLC

\* ---------------------------------------------------------------------------
\* Bounds of the model
\* ---------------------------------------------------------------------------
\* longest listing collection drawn from the backend rows
MaxLen == 3
\* number of user events (input changes, submits, clears) in the search bar
MaxEvents == 3
\* number of auth-change notifications delivered by the backend
MaxNotifs == 2
\* the number of requests Home issues in a behaviour
MaxRequests == 3
\* the number of enquiries submitted in a behaviour
MaxSubmits == 2
\* the calls of getUserProfile in flight at one time
MaxFetches == 2

\* ---------------------------------------------------------------------------
\* JavaScript values
\* ---------------------------------------------------------------------------
\* an absent (undefined) boolean field; booleans are "true" / "false"
Undefined == "undefined"
JsTrue == "true"
JsFalse == "false"
\* an absent (undefined) numeric field; present numbers are >= 0
UndefNum == 0 - 1
\* an absent (undefined) string field; strings are tuples of characters
UndefStr == <<Undefined>>

\* String.prototype.toLowerCase on one character
LowerChar(c) ==
  CASE c = "A" -> "a" [] c = "B" -> "b" [] c = "C" -> "c" [] c = "D" -> "d"
    [] c = "E" -> "e" [] c = "F" -> "f" [] c = "G" -> "g" [] c = "H" -> "h"
    [] c = "I" -> "i" [] c = "J" -> "j" [] c = "K" -> "k" [] c = "L" -> "l"
    [] c = "M" -> "m" [] c = "N" -> "n" [] c = "O" -> "o" [] c = "P" -> "p"
    [] c = "Q" -> "q" [] c = "R" -> "r" [] c = "S" -> "s" [] c = "T" -> "t"
    [] c = "U" -> "u" [] c = "V" -> "v" [] c = "W" -> "w" [] c = "X" -> "x"
    [] c = "Y" -> "y" [] c = "Z" -> "z" [] OTHER -> c

\* String.prototype.toLowerCase
toLowerCase(s) == [i \in 1..Len(s) |-> LowerChar(s[i])]

\* String.prototype.includes: sub occurs in s as a contiguous substring
includes(s, sub) ==
  \E i \in 0..(Len(s) - Len(sub)) : SubSeq(s, i + 1, i + Len(sub)) = sub

\* ---------------------------------------------------------------------------
\* Listings: the fixture set of getMockListings and a pool of backend rows
\* ---------------------------------------------------------------------------
\* "Camden, NW1"
Loc1 ==
  <<"C","a","m","d","e","n",","," ","N","W","1">>

\* "Islington, N1"
Loc2 ==
  <<"I","s","l","i","n","g","t","o","n",","," ","N","1">>

\* "Clapham, SW4"
Loc3 ==
  <<"C","l","a","p","h","a","m",","," ","S","W","4">>

\* "Hackney, E8"
Loc4 ==
  <<"H","a","c","k","n","e","y",","," ","E","8">>

\* "Canary Wharf, E14"
Loc5 ==
  <<"C","a","n","a","r","y"," ","W","h","a","r","f",","," ","E","1","4">>

\* "Beautiful 2-bedroom apartment with large windows and pet-friendly amenities. Close to Camden Market and tube station. Garden access available for pets."
Desc1 ==
  <<"B","e","a","u","t","i","f","u","l"," ","2","-","b","e","d","r","o","o","m"," ","a","p","a","r","t","m","e","n","t"," ","w","i","t","h"," ","l","a","r","g","e"," ","w","i","n","d","o","w","s"," ","a","n","d"," ","p","e","t","-","f","r","i","e","n","d","l","y"," ","a","m","e","n","i","t","i","e","s","."," ","C","l","o","s","e"," ","t","o"," ","C","a","m","d","e","n"," ","M","a","r","k","e","t"," ","a","n","d"," ","t","u","b","e"," ","s","t","a","t","i","o","n","."," ","G","a","r","d","e","n"," ","a","c","c","e","s","s"," ","a","v","a","i","l","a","b","l","e"," ","f","o","r"," ","p","e","t","s",".">>

\* "Contemporary studio apartment with access to shared courtyard. Perfect for pet owners with small to medium pets. Utilities included."
Desc2 ==
  <<"C","o","n","t","e","m","p","o","r","a","r","y"," ","s","t","u","d","i","o"," ","a","p","a","r","t","m","e","n","t"," ","w","i","t","h"," ","a","c","c","e","s","s"," ","t","o"," ","s","h","a","r","e","d"," ","c","o","u","r","t","y","a","r","d","."," ","P","e","r","f","e","c","t"," ","f","o","r"," ","p","e","t"," ","o","w","n","e","r","s"," ","w","i","t","h"," ","s","m","a","l","l"," ","t","o"," ","m","e","d","i","u","m"," ","p","e","t","s","."," ","U","t","i","l","i","t","i","e","s"," ","i","n","c","l","u","d","e","d",".">>

\* "Charming Victorian house with large private garden. Perfect for families with pets. Recently renovated kitchen and bathrooms."
Desc3 ==
  <<"C","h","a","r","m","i","n","g"," ","V","i","c","t","o","r","i","a","n"," ","h","o","u","s","e"," ","w","i","t","h"," ","l","a","r","g","e"," ","p","r","i","v","a","t","e"," ","g","a","r","d","e","n","."," ","P","e","r","f","e","c","t"," ","f","o","r"," ","f","a","m","i","l","i","e","s"," ","w","i","t","h"," ","p","e","t","s","."," ","R","e","c","e","n","t","l","y"," ","r","e","n","o","v","a","t","e","d"," ","k","i","t","c","h","e","n"," ","a","n","d"," ","b","a","t","h","r","o","o","m","s",".">>

\* "Large double room in friendly house share. Current housemates have cats and are very welcoming to pets. Shared garden and living spaces."
Desc4 ==
  <<"L","a","r","g","e"," ","d","o","u","b","l","e"," ","r","o","o","m"," ","i","n"," ","f","r","i","e","n","d","l","y"," ","h","o","u","s","e"," ","s","h","a","r","e","."," ","C","u","r","r","e","n","t"," ","h","o","u","s","e","m","a","t","e","s"," ","h","a","v","e"," ","c","a","t","s"," ","a","n","d"," ","a","r","e"," ","v","e","r","y"," ","w","e","l","c","o","m","i","n","g"," ","t","o"," ","p","e","t","s","."," ","S","h","a","r","e","d"," ","g","a","r","d","e","n"," ","a","n","d"," ","l","i","v","i","n","g"," ","s","p","a","c","e","s",".">>

\* "High-specification apartment with private balcony and concierge service. Pet washing station in building. River views."
Desc5 ==
  <<"H","i","g","h","-","s","p","e","c","i","f","i","c","a","t","i","o","n"," ","a","p","a","r","t","m","e","n","t"," ","w","i","t","h"," ","p","r","i","v","a","t","e"," ","b","a","l","c","o","n","y"," ","a","n","d"," ","c","o","n","c","i","e","r","g","e"," ","s","e","r","v","i","c","e","."," ","P","e","t"," ","w","a","s","h","i","n","g"," ","s","t","a","t","i","o","n"," ","i","n"," ","b","u","i","l","d","i","n","g","."," ","R","i","v","e","r"," ","v","i","e","w","s",".">>

\* minutes since 2024-01-01T00:00:00Z of an ISO timestamp in January 2024
Stamp(day, hour, minute) == ((day - 1) * 24 + hour) * 60 + minute

\* getMockListings(): the five fixture listings, keyed by id
getMockListings ==
  << [id |-> 1, Rent |-> 2200, Listed |-> Stamp(15, 10, 0), Bedrooms |-> 2,
      Location |-> Loc1, Description |-> Desc1, Furnished |-> JsTrue,
      Garden |-> JsTrue, PetParkingCosts |-> 50, HouseShare |-> JsFalse],
     [id |-> 2, Rent |-> 1650, Listed |-> Stamp(12, 14, 30), Bedrooms |-> 0,
      Location |-> Loc2, Description |-> Desc2, Furnished |-> JsTrue,
      Garden |-> JsTrue, PetParkingCosts |-> 25, HouseShare |-> JsFalse],
     [id |-> 3, Rent |-> 3200, Listed |-> Stamp(10, 9, 15), Bedrooms |-> 3,
      Location |-> Loc3, Description |-> Desc3, Furnished |-> JsFalse,
      Garden |-> JsTrue, PetParkingCosts |-> 0, HouseShare |-> JsFalse],
     [id |-> 4, Rent |-> 950, Listed |-> Stamp(8, 16, 45), Bedrooms |-> 1,
      Location |-> Loc4, Description |-> Desc4, Furnished |-> JsTrue,
      Garden |-> JsTrue, PetParkingCosts |-> 15, HouseShare |-> JsTrue],
     [id |-> 5, Rent |-> 2800, Listed |-> Stamp(5, 11, 20), Bedrooms |-> 1,
      Location |-> Loc5, Description |-> Desc5, Furnished |-> JsTrue,
      Garden |-> JsFalse, PetParkingCosts |-> 100, HouseShare |-> JsFalse] >>

\* rows of the backend 'listings' table used as inputs; row 6 is a malformed
\* record with every optional field absent
BackendRows ==
  << [id |-> 6, Rent |-> UndefNum, Listed |-> UndefNum, Bedrooms |-> UndefNum,
      Location |-> UndefStr, Description |-> UndefStr, Furnished |-> Undefined,
      Garden |-> Undefined, PetParkingCosts |-> UndefNum, HouseShare |-> Undefined],
     [id |-> 7, Rent |-> 0, Listed |-> Stamp(20, 0, 0), Bedrooms |-> 4,
      Location |-> <<"S","o","h","o",","," ","W","1">>,
      Description |-> <<"N","o"," ","a","n","i","m","a","l","s">>,
      Furnished |-> JsFalse, Garden |-> JsFalse, PetParkingCosts |-> 0,
      HouseShare |-> JsTrue],
     [id |-> 8, Rent |-> 1200, Listed |-> Stamp(7, 0, 0), Bedrooms |-> 0,
      Location |-> <<"C","a","m","d","e","n"," ","T","o","w","n">>,
      Description |-> <<"D","O","G","S"," ","w","e","l","c","o","m","e">>,
      Furnished |-> JsTrue, Garden |-> JsFalse, PetParkingCosts |-> 0,
      HouseShare |-> JsFalse],
     [id |-> 9, Rent |-> 1200, Listed |-> Stamp(7, 0, 0), Bedrooms |-> 2,
      Location |-> <<"N","W","1","0">>, Description |-> <<>>,
      Furnished |-> JsFalse, Garden |-> JsTrue, PetParkingCosts |-> UndefNum,
      HouseShare |-> Undefined],
     [id |-> 10, Rent |-> 900, Listed |-> Stamp(14, 0, 0), Bedrooms |-> 1,
      Location |-> <<"B","r","i","x","t","o","n">>,
      Description |-> <<"L","o","c","a","t","e","d"," ","c","e","n","t","r","a","l","l","y">>,
      Furnished |-> JsTrue, Garden |-> JsFalse, PetParkingCosts |-> 0,
      HouseShare |-> JsFalse] >>

\* every listing of the model; a listing's id is its index here, and the
\* collections held in the state are sequences of ids
AllListings == getMockListings \o BackendRows
Rec(id) == AllListings[id]
FixtureIds == [i \in 1..Len(getMockListings) |-> getMockListings[i].id]
RowIds == {BackendRows[i].id : i \in 1..Len(BackendRows)}

Range(s) == {s[i] : i \in 1..Len(s)}

\* sequences of distinct elements of S of length at most n
RECURSIVE DistinctSeqs(_, _)
DistinctSeqs(S, n) ==
  IF n = 0 THEN {<<>>}
  ELSE LET shorter == DistinctSeqs(S, n - 1)
       IN shorter \cup
          UNION {{Append(s, x) : x \in S \ Range(s)} :
                   s \in {q \in shorter : Len(q) = n - 1}}

\* the listing collections the pipeline is run on
InputCollections == DistinctSeqs(RowIds, MaxLen) \cup {FixtureIds}

\* Filters.propertyTypes / Filters.sortOptions: the values the controls offer
propertyTypes ==
  {"", "studio", "one-bed", "two-bed", "three-bed", "house-share",
   "furnished", "unfurnished"}
sortOptions ==
  {"newest", "oldest", "cheapest", "expensive", "bedrooms-asc", "bedrooms-desc"}

\* ---------------------------------------------------------------------------
\* applyFiltersAndSort (Home)
\* ---------------------------------------------------------------------------
\* x >= n on a possibly absent number (undefined >= n is false)
JsGE(x, n) == x /= UndefNum /\ x >= n
\* x > n on a possibly absent number (undefined > n is false)
JsGT(x, n) == x /= UndefNum /\ x > n

\* the switch of the property-type filter callback
MatchesPropertyType(id, propertyType_) ==
  CASE propertyType_ = "studio" -> Rec(id).Bedrooms = 0
    [] propertyType_ = "one-bed" -> Rec(id).Bedrooms = 1
    [] propertyType_ = "two-bed" -> Rec(id).Bedrooms = 2
    [] propertyType_ = "three-bed" -> JsGE(Rec(id).Bedrooms, 3)
    [] propertyType_ = "house-share" -> Rec(id).HouseShare = JsTrue
    [] propertyType_ = "furnished" -> Rec(id).Furnished = JsTrue
    [] propertyType_ = "unfurnished" -> Rec(id).Furnished = JsFalse
    [] OTHER -> TRUE

\* the same test without toLowerCase()
DescriptionIncludesCaseSensitive(id, word) ==
  /\ Rec(id).Description /= UndefStr
  /\ includes(Rec(id).Description, word)

\* listing.Description?.toLowerCase().includes(word)
DescriptionIncludes(id, word) ==
  /\ Rec(id).Description /= UndefStr
  /\ includes(toLowerCase(Rec(id).Description), word)

\* the pet-friendly filter callback
MatchesPetFriendly(id) ==
  \/ JsGT(Rec(id).PetParkingCosts, 0)
  \/ Rec(id).Garden = JsTrue
  \/ DescriptionIncludes(id, <<"p","e","t">>)
  \/ DescriptionIncludes(id, <<"d","o","g">>)
  \/ DescriptionIncludes(id, <<"c","a","t">>)

\* a JavaScript number that may be NaN
Num(v) == [nan |-> FALSE, v |-> v]
NaN == [nan |-> TRUE, v |-> 0]
\* new Date(listed): an absent timestamp gives an Invalid Date, whose value is NaN
DateOf(listed) == IF listed = UndefNum THEN NaN ELSE Num(listed)
\* a - b on numbers that may be NaN
Minus(a, b) == IF a.nan \/ b.nan THEN NaN ELSE Num(a.v - b.v)
\* (x || 0): an absent number counts as 0
OrZero(x) == IF x = UndefNum THEN 0 ELSE x

\* the comparator passed to filtered.sort
comparefn(sortBy_, a, b) ==
  CASE sortBy_ = "newest" -> Minus(DateOf(Rec(b).Listed), DateOf(Rec(a).Listed))
    [] sortBy_ = "oldest" -> Minus(DateOf(Rec(a).Listed), DateOf(Rec(b).Listed))
    [] sortBy_ = "cheapest" -> Num(OrZero(Rec(a).Rent) - OrZero(Rec(b).Rent))
    [] sortBy_ = "expensive" -> Num(OrZero(Rec(b).Rent) - OrZero(Rec(a).Rent))
    [] sortBy_ = "bedrooms-asc" ->
         Num(OrZero(Rec(a).Bedrooms) - OrZero(Rec(b).Bedrooms))
    [] sortBy_ = "bedrooms-desc" ->
         Num(OrZero(Rec(b).Bedrooms) - OrZero(Rec(a).Bedrooms))
    [] OTHER -> Num(0)

\* Array.prototype.sort's SortCompare: a NaN from the comparator counts as +0
SortCompare(sortBy_, a, b) ==
  LET v == comparefn(sortBy_, a, b) IN IF v.nan THEN 0 ELSE v.v

Sign(n) == IF n < 0 THEN 0 - 1 ELSE IF n > 0 THEN 1 ELSE 0

\* the comparator is a consistent comparison function for the elements of S
\* (ECMAScript, Array.prototype.sort): it induces a strict weak ordering
ConsistentComparator(sortBy_, S) ==
  \A a, b, c \in S :
    /\ SortCompare(sortBy_, a, a) = 0
    /\ Sign(SortCompare(sortBy_, a, b)) = 0 - Sign(SortCompare(sortBy_, b, a))
    /\ (SortCompare(sortBy_, a, b) = 0 /\ SortCompare(sortBy_, b, c) = 0)
         => SortCompare(sortBy_, a, c) = 0
    /\ (SortCompare(sortBy_, a, b) < 0 /\ SortCompare(sortBy_, b, c) < 0)
         => SortCompare(sortBy_, a, c) < 0
    /\ (SortCompare(sortBy_, a, b) = 0)
         => Sign(SortCompare(sortBy_, a, c)) = Sign(SortCompare(sortBy_, b, c))

\* insert x behind the elements of the sorted sequence s that do not follow it
InsertSorted(sortBy_, s, x) ==
  LET k == Cardinality({i \in 1..Len(s) : SortCompare(sortBy_, s[i], x) <= 0})
  IN SubSeq(s, 1, k) \o <<x>> \o SubSeq(s, k + 1, Len(s))

\* the stable sort of s under a consistent comparator
RECURSIVE StableSort(_, _)
StableSort(sortBy_, s) ==
  IF s = <<>> THEN <<>>
  ELSE InsertSorted(sortBy_, StableSort(sortBy_, SubSeq(s, 1, Len(s) - 1)), s[Len(s)])

\* every rearrangement of s
PermutationsOf(s) ==
  {[i \in 1..Len(s) |-> s[p[i]]] : p \in Permutations(1..Len(s))}

\* Array.prototype.sort(comparefn): the stable sorted order when the
\* comparator is consistent; otherwise the order is implementation-defined
\* and any rearrangement of the elements may result
SortOutcomes(sortBy_, s) ==
  IF ConsistentComparator(sortBy_, Range(s))
  THEN {StableSort(sortBy_, s)}
  ELSE PermutationsOf(s)

\* Arrays are objects: a heap maps the name of each array the function
\* touches to its contents, and a reference is such a name.
\* filtered = arr: a second reference to the same array, no copy
AliasInsteadOfCopy(heap, src, dst) == [ref |-> src, heap |-> heap]

\* [...arr]: a new array with the elements of arr
SpreadCopy(heap, src, dst) ==
  [ref |-> dst, heap |-> (dst :> heap[src]) @@ heap]

\* arr.filter(callback): a new array with the elements of arr, in order, that
\* are among kept, the elements the callback returns true for
ArrayFilter(heap, src, dst, kept) ==
  [ref |-> dst,
   heap |-> (dst :> SelectSeq(heap[src], LAMBDA x : x \in kept)) @@ heap]

\* arr.sort(comparefn): sorts the array in place
ArraySort(heap, ref, sortBy_) ==
  {[ref |-> ref, heap |-> (ref :> sorted) @@ heap] :
     sorted \in SortOutcomes(sortBy_, heap[ref])}

\* applyFiltersAndSort over the state (listings, propertyType,
\* showPetFriendlyOnly, sortBy): the possible pairs of the listings array
\* after the run and the array handed to setFilteredListings
applyFiltersAndSort(listings_, propertyType_, showPetFriendlyOnly_, sortBy_) ==
  LET copied == SpreadCopy([listings |-> listings_], "listings", "filtered")
      byType == IF propertyType_ /= ""
                THEN ArrayFilter(copied.heap, copied.ref, "byType",
                                 {id \in Range(listings_) :
                                    MatchesPropertyType(id, propertyType_)})
                ELSE copied
      byPet == IF showPetFriendlyOnly_
               THEN ArrayFilter(byType.heap, byType.ref, "byPet",
                                {id \in Range(listings_) : MatchesPetFriendly(id)})
               ELSE byType
  IN {[listings |-> sorted.heap["listings"],
       filteredListings |-> sorted.heap[sorted.ref]] :
        sorted \in ArraySort(byPet.heap, byPet.ref, sortBy_)}

\* ---------------------------------------------------------------------------
\* Backend client adapter (lib/supabase.js)
\* ---------------------------------------------------------------------------
\* the placeholder the client is created with when no URL is set
PlaceholderUrl == "https://placeholder.supabase.co"
\* the placeholder the client is created with when no key is set
PlaceholderKey == "placeholder-key"

\* the values process.env can give the two settings
UrlValues == {Undefined, "", PlaceholderUrl, "https://paws.supabase.co"}
KeyValues == {Undefined, "", PlaceholderKey, "anon-key"}

\* JavaScript truthiness of undefined, a string or a boolean
Truthy(v) == v \notin {Undefined, "", JsFalse}
\* a && b: a when a is falsy, else b
JsAnd(a, b) == IF Truthy(a) THEN b ELSE a
\* a !== b on strings
StrictNotEqual(a, b) == IF a /= b THEN JsTrue ELSE JsFalse

\* a || b: a when a is truthy, else b
JsOr(a, b) == IF Truthy(a) THEN a ELSE b

\* the check with || between the two placeholder tests
isConfiguredUnlessBothPlaceholders(supabaseUrl_, supabaseAnonKey_) ==
  Truthy(JsAnd(JsAnd(supabaseUrl_, supabaseAnonKey_),
               JsOr(StrictNotEqual(supabaseUrl_, PlaceholderUrl),
                    StrictNotEqual(supabaseAnonKey_, PlaceholderKey))))

\* isSupabaseConfigured(): !!(url && key && url !== placeholder && key !== placeholder)
isSupabaseConfigured(supabaseUrl_, supabaseAnonKey_) ==
  Truthy(JsAnd(JsAnd(JsAnd(supabaseUrl_, supabaseAnonKey_),
                     StrictNotEqual(supabaseUrl_, PlaceholderUrl)),
               StrictNotEqual(supabaseAnonKey_, PlaceholderKey)))

\* SQL LIKE: % matches any run of characters, _ any one character
RECURSIVE LikeMatch(_, _)
LikeMatch(pattern, s) ==
  IF pattern = <<>> THEN s = <<>>
  ELSE IF Head(pattern) = "%"
       THEN LikeMatch(Tail(pattern), s) \/ (s /= <<>> /\ LikeMatch(pattern, Tail(s)))
       ELSE /\ s /= <<>>
            /\ (Head(pattern) = "_" \/ Head(pattern) = Head(s))
            /\ LikeMatch(Tail(pattern), Tail(s))

\* .ilike(column, pattern): case-insensitive LIKE; a NULL column never matches
ilike(value, pattern) ==
  value /= UndefStr /\ LikeMatch(toLowerCase(pattern), toLowerCase(value))

\* .order('Listed', { ascending: false }): the orders the backend may return
\* the rows in: Listed descending, rows without Listed first, ties in any order
OrderListedDescending(rows) ==
  {s \in DistinctSeqs(rows, Cardinality(rows)) :
     /\ Len(s) = Cardinality(rows)
     /\ \A i, j \in 1..Len(s) :
          i < j => \/ Rec(s[i]).Listed = UndefNum
                   \/ /\ Rec(s[j]).Listed /= UndefNum
                      /\ Rec(s[i]).Listed >= Rec(s[j]).Listed}

\* how a backend call can end: with rows, with a reported error, or by throwing
BackendOutcomes == {"data", "error", "throw"}

\* the responses of from('listings').select('*').order('Listed', ...)
SelectAllResponses(table_, outcome) ==
  IF outcome = "data"
  THEN {[kind |-> "data", data |-> s] : s \in OrderListedDescending(table_)}
  ELSE {[kind |-> outcome, data |-> <<>>]}

\* the responses of the same query with .ilike('Location', `%${searchTerm}%`)
SelectLikeResponses(table_, searchTerm_, outcome) ==
  IF outcome = "data"
  THEN {[kind |-> "data", data |-> s] :
          s \in OrderListedDescending(
                  {id \in table_ :
                     ilike(Rec(id).Location, <<"%">> \o searchTerm_ \o <<"%">>)})}
  ELSE {[kind |-> outcome, data |-> <<>>]}

\* how a call of an async function ends
Returned(value) == [kind |-> "return", value |-> value]
Thrown == [kind |-> "throw", value |-> <<>>]

\* the body of a try block given what the awaited backend call did, and the
\* catch block's result when the call threw
TryCatch(response, onData, onError, onCatch) ==
  CASE response.kind = "throw" -> onCatch
    [] response.kind = "error" -> onError
    [] OTHER -> onData

\* fetchListings() without its try/catch: a throw of the backend call
\* propagates to the caller
fetchListingsWithoutCatch(supabaseUrl_, supabaseAnonKey_, response) ==
  IF ~isSupabaseConfigured(supabaseUrl_, supabaseAnonKey_)
  THEN Returned(FixtureIds)
  ELSE TryCatch(response, Returned(response.data), Returned(FixtureIds), Thrown)

\* fetchListings()
fetchListings(supabaseUrl_, supabaseAnonKey_, response) ==
  IF ~isSupabaseConfigured(supabaseUrl_, supabaseAnonKey_)
  THEN Returned(FixtureIds)
  ELSE TryCatch(response, Returned(response.data), Returned(FixtureIds),
                Returned(FixtureIds))

\* searchListingsByLocation(searchTerm)
searchListingsByLocation(supabaseUrl_, supabaseAnonKey_, searchTerm_, response) ==
  IF ~isSupabaseConfigured(supabaseUrl_, supabaseAnonKey_)
  THEN Returned(SelectSeq(FixtureIds,
         LAMBDA id : includes(toLowerCase(Rec(id).Location), toLowerCase(searchTerm_))))
  ELSE TryCatch(response, Returned(response.data), Returned(<<>>), Returned(<<>>))

\* the search terms tried
SearchTerms ==
  {<<>>, <<"c","a","m">>, <<"N","W","1">>, <<"w","1">>, <<"%">>, <<"_","1">>}

\* ---------------------------------------------------------------------------
\* SearchBar (components/SearchBar)
\* ---------------------------------------------------------------------------
\* the values the search input takes
InputValues == {<<>>, <<"c">>, <<"c","a">>, <<"c","a","m">>}

\* clearTimeout / setTimeout identify timers by positive numbers
NoTimer == 0

\* the handleSearchChange function object after SearchBar rendered again: the
\* component body creates a new arrow function, which has no timeoutId
\* property, whatever the previous render's function object carried
AfterRender(fn) == [timeoutId |-> NoTimer]

\* clearTimeout(id): the pending timers without the one identified by id
clearTimeout(timers_, id) == SelectSeq(timers_, LAMBDA t : t.id /= id)

\* ---------------------------------------------------------------------------
\* Session holder (lib/AuthContext.js) and the adapter's auth reads
\* ---------------------------------------------------------------------------
Null == "null"

\* the users the backend knows, and the role in each one's user_metadata
Users == {"user-admin", "user-agent", "user-plain"}
MetadataRole(u) ==
  CASE u = "user-admin" -> "admin"
    [] u = "user-agent" -> "agent"
    [] OTHER -> Undefined

\* a session is Null or identified by its user; session?.user || null
SessionUser(session) == session
Sessions == Users \cup {Null}

\* getUserRole(user) without the || 'tenant' default
getUserRoleWithoutDefault(u) ==
  IF u = Null THEN Null ELSE MetadataRole(u)

\* getUserRole(user): null without a user, else user_metadata.role || 'tenant'
getUserRole(u) ==
  IF u = Null THEN Null
  ELSE IF Truthy(MetadataRole(u)) THEN MetadataRole(u) ELSE "tenant"

\* getCurrentUser(): null when unconfigured, on a reported error and on a
\* throw; else the user of the session the backend answered with
getCurrentUser(supabaseUrl_, supabaseAnonKey_, response) ==
  IF ~isSupabaseConfigured(supabaseUrl_, supabaseAnonKey_)
  THEN Null
  ELSE TryCatch(response, SessionUser(response.data), Null, Null)

\* a null object reference, and an absent (undefined) object property
NullObject == [null |-> TRUE]
AbsentObject == [undefined |-> TRUE]

\* the user_metadata of the user the backend knows as u: {} without a role
UserMetadata(u) ==
  [name |-> Undefined, email |-> UndefStr, role |-> MetadataRole(u),
   company |-> Undefined]
\* the user object the backend returns for the user it knows as u
UserObject(u) ==
  IF u = Null THEN NullObject
  ELSE [id |-> u, user_metadata |-> UserMetadata(u)]

\* the error a backend auth call reports, the exception such a call throws,
\* and the two messages the adapter makes up itself
BackendError == "Invalid login credentials"
ThrownError == "TypeError: Failed to fetch"
NotConfiguredError == "Authentication service not configured"
UnexpectedError == "An unexpected error occurred"

\* the responses of a backend auth call: data.user is a user (or null, for a
\* sign-up that created none), or an error is reported, or the call throws
AuthResponses(outcome) ==
  IF outcome = "data"
  THEN {[kind |-> "data", data |-> u] : u \in Users \cup {Null}}
  ELSE {[kind |-> outcome, data |-> Null]}

\* what an adapter function returned, after the backend calls it made
ReturnedAfter(calls, value) ==
  [kind |-> "return", value |-> value, backendCalls |-> calls]
\* an adapter function that let the exception of a backend call escape
ThrownAfter(calls) ==
  [kind |-> "throw", value |-> [error |-> ThrownError], backendCalls |-> calls]

\* the e-mail addresses and passwords typed into the forms
Emails ==
  {<<>>, <<"b","o","b">>, <<"a","d","m","i","n">>, <<"a","g","e","n","t">>,
   <<"A","d","m","i","n">>, <<"a","g","e","n","t","a","d","m","i","n">>}
Passwords == {<<>>, <<"p","w">>}

\* --- lib/supabase.js -------------------------------------------------------
\* createUserProfile(userId, email, role, metadata)
createUserProfile(supabaseUrl_, supabaseAnonKey_, userId, response) ==
  IF ~isSupabaseConfigured(supabaseUrl_, supabaseAnonKey_)
  THEN ReturnedAfter(<<>>, [error |-> "Database service not configured"])
  ELSE TryCatch(response,
         ReturnedAfter(<<"profiles.insert">>, [data |-> userId, error |-> Null]),
         ReturnedAfter(<<"profiles.insert">>, [error |-> BackendError]),
         ReturnedAfter(<<"profiles.insert">>, [error |-> UnexpectedError]))

\* a variant of signUp that returns the error of the profile insert
signUpWithProfileError(supabaseUrl_, supabaseAnonKey_, email, password, response, profileResponse) ==
  IF ~isSupabaseConfigured(supabaseUrl_, supabaseAnonKey_)
  THEN ReturnedAfter(<<>>, [data |-> AbsentObject, error |-> NotConfiguredError])
  ELSE TryCatch(response,
         LET profileResult ==
               createUserProfile(supabaseUrl_, supabaseAnonKey_, response.data,
                                 profileResponse)
         IN IF response.data /= Null
            THEN ReturnedAfter(
                   <<"auth.signUp">> \o profileResult.backendCalls,
                   IF profileResult.value.error /= Null
                   THEN [data |-> AbsentObject, error |-> profileResult.value.error]
                   ELSE [data |-> [user |-> UserObject(response.data)],
                         error |-> Null])
            ELSE ReturnedAfter(<<"auth.signUp">>,
                   [data |-> [user |-> NullObject], error |-> Null]),
         ReturnedAfter(<<"auth.signUp">>,
           [data |-> AbsentObject, error |-> BackendError]),
         ReturnedAfter(<<"auth.signUp">>,
           [data |-> AbsentObject, error |-> UnexpectedError]))

\* signUp(email, password, role, metadata): the profile is created when
\* data.user is set, and its result is only logged
signUp(supabaseUrl_, supabaseAnonKey_, email, password, response, profileResponse) ==
  IF ~isSupabaseConfigured(supabaseUrl_, supabaseAnonKey_)
  THEN ReturnedAfter(<<>>, [data |-> AbsentObject, error |-> NotConfiguredError])
  ELSE TryCatch(response,
         IF response.data /= Null
         THEN ReturnedAfter(
                <<"auth.signUp">> \o
                  createUserProfile(supabaseUrl_, supabaseAnonKey_, response.data,
                                    profileResponse).backendCalls,
                [data |-> [user |-> UserObject(response.data)], error |-> Null])
         ELSE ReturnedAfter(<<"auth.signUp">>,
                [data |-> [user |-> NullObject], error |-> Null]),
         ReturnedAfter(<<"auth.signUp">>,
           [data |-> AbsentObject, error |-> BackendError]),
         ReturnedAfter(<<"auth.signUp">>,
           [data |-> AbsentObject, error |-> UnexpectedError]))

\* signIn(email, password) without its try/catch
signInWithoutCatch(supabaseUrl_, supabaseAnonKey_, email, password, response) ==
  IF ~isSupabaseConfigured(supabaseUrl_, supabaseAnonKey_)
  THEN ReturnedAfter(<<>>, [data |-> AbsentObject, error |-> NotConfiguredError])
  ELSE TryCatch(response,
         ReturnedAfter(<<"auth.signInWithPassword">>,
           [data |-> [user |-> UserObject(response.data)], error |-> Null]),
         ReturnedAfter(<<"auth.signInWithPassword">>,
           [data |-> AbsentObject, error |-> BackendError]),
         ThrownAfter(<<"auth.signInWithPassword">>))

\* signIn(email, password)
signIn(supabaseUrl_, supabaseAnonKey_, email, password, response) ==
  IF ~isSupabaseConfigured(supabaseUrl_, supabaseAnonKey_)
  THEN ReturnedAfter(<<>>, [data |-> AbsentObject, error |-> NotConfiguredError])
  ELSE TryCatch(response,
         ReturnedAfter(<<"auth.signInWithPassword">>,
           [data |-> [user |-> UserObject(response.data)], error |-> Null]),
         ReturnedAfter(<<"auth.signInWithPassword">>,
           [data |-> AbsentObject, error |-> BackendError]),
         ReturnedAfter(<<"auth.signInWithPassword">>,
           [data |-> AbsentObject, error |-> UnexpectedError]))

\* signOut(): { error } as the backend reported it, null on success
signOut(supabaseUrl_, supabaseAnonKey_, response) ==
  IF ~isSupabaseConfigured(supabaseUrl_, supabaseAnonKey_)
  THEN ReturnedAfter(<<>>, [error |-> NotConfiguredError])
  ELSE TryCatch(response,
         ReturnedAfter(<<"auth.signOut">>, [error |-> Null]),
         ReturnedAfter(<<"auth.signOut">>, [error |-> BackendError]),
         ReturnedAfter(<<"auth.signOut">>, [error |-> UnexpectedError]))

\* the row of the profiles table for a user: its role column is one of
\* 'admin', 'agent', 'tenant'
ProfileRow(u) ==
  [id |-> u,
   role |-> CASE u = "user-admin" -> "admin"
              [] u = "user-agent" -> "agent"
              [] OTHER -> "tenant"]

\* getUserProfile(userId): null when unconfigured, without a userId, on a
\* reported error (no single row among them) and on a throw; else the row
getUserProfile(supabaseUrl_, supabaseAnonKey_, userId, response) ==
  IF ~isSupabaseConfigured(supabaseUrl_, supabaseAnonKey_) \/ ~Truthy(userId)
  THEN NullObject
  ELSE TryCatch(response, ProfileRow(userId), NullObject, NullObject)

\* getCurrentUser() with the backend calls it made
getCurrentUserCall(supabaseUrl_, supabaseAnonKey_, response) ==
  ReturnedAfter(
    IF isSupabaseConfigured(supabaseUrl_, supabaseAnonKey_)
    THEN <<"auth.getSession">> ELSE <<>>,
    [user |-> UserObject(getCurrentUser(supabaseUrl_, supabaseAnonKey_, response))])

\* --- the adapter with mock authentication (signUpUser, signInUser, ...) -----
MockUserId == "mock-user"
\* { id: 'mock-user', email, role }
MockUser(email, role_) == [id |-> MockUserId, email |-> email, role |-> role_]

\* signUpUser(email, password, role = 'tenant')
signUpUser(supabaseUrl_, supabaseAnonKey_, email, password, role_, response) ==
  IF ~isSupabaseConfigured(supabaseUrl_, supabaseAnonKey_)
  THEN ReturnedAfter(<<>>,
         [user |-> MockUser(email, role_), error |-> Null, mockMode |-> JsTrue])
  ELSE TryCatch(response,
         ReturnedAfter(<<"auth.signUp">>,
           [user |-> UserObject(response.data), error |-> Null,
            mockMode |-> Undefined]),
         ReturnedAfter(<<"auth.signUp">>,
           [user |-> NullObject, error |-> BackendError, mockMode |-> Undefined]),
         ReturnedAfter(<<"auth.signUp">>,
           [user |-> NullObject, error |-> ThrownError, mockMode |-> Undefined]))

\* signInUser(email, password)
signInUser(supabaseUrl_, supabaseAnonKey_, email, password, response) ==
  IF ~isSupabaseConfigured(supabaseUrl_, supabaseAnonKey_)
  THEN ReturnedAfter(<<>>,
         [user |-> MockUser(email, "tenant"), error |-> Null, mockMode |-> JsTrue])
  ELSE TryCatch(response,
         ReturnedAfter(<<"auth.signInWithPassword">>,
           [user |-> UserObject(response.data), error |-> Null,
            mockMode |-> Undefined]),
         ReturnedAfter(<<"auth.signInWithPassword">>,
           [user |-> NullObject, error |-> BackendError, mockMode |-> Undefined]),
         ReturnedAfter(<<"auth.signInWithPassword">>,
           [user |-> NullObject, error |-> ThrownError, mockMode |-> Undefined]))

\* signOutUser()
signOutUser(supabaseUrl_, supabaseAnonKey_, response) ==
  IF ~isSupabaseConfigured(supabaseUrl_, supabaseAnonKey_)
  THEN ReturnedAfter(<<>>, [error |-> Null, mockMode |-> JsTrue])
  ELSE TryCatch(response,
         ReturnedAfter(<<"auth.signOut">>, [error |-> Null, mockMode |-> Undefined]),
         ReturnedAfter(<<"auth.signOut">>,
           [error |-> BackendError, mockMode |-> Undefined]),
         ReturnedAfter(<<"auth.signOut">>,
           [error |-> ThrownError, mockMode |-> Undefined]))

\* --- pages/login.js ----------------------------------------------------------
\* mockRole: email.includes('admin') ? 'admin' : email.includes('agent') ?
\* 'agent' : 'tenant', with 'agent' tested first
mockRoleAgentFirst(email) ==
  IF includes(email, <<"a","g","e","n","t">>) THEN "agent"
  ELSE IF includes(email, <<"a","d","m","i","n">>) THEN "admin"
  ELSE "tenant"

\* mockRole: email.includes('admin') ? 'admin' : email.includes('agent') ?
\* 'agent' : 'tenant'
mockRole(email) ==
  IF includes(email, <<"a","d","m","i","n">>) THEN "admin"
  ELSE IF includes(email, <<"a","g","e","n","t">>) THEN "agent"
  ELSE "tenant"

\* --- strings of the forms ----------------------------------------------------
\* white space as String.prototype.trim and \S see it
IsSpace(c) == c = " "

\* String.prototype.trim
trim(s) ==
  IF \A i \in 1..Len(s) : IsSpace(s[i]) THEN <<>>
  ELSE LET first == CHOOSE i \in 1..Len(s) :
                      ~IsSpace(s[i]) /\ \A j \in 1..(i - 1) : IsSpace(s[j])
           last == CHOOSE i \in 1..Len(s) :
                     ~IsSpace(s[i]) /\ \A j \in (i + 1)..Len(s) : IsSpace(s[j])
       IN SubSeq(s, first, last)

\* /\S+@\S+\.\S+/.test(s): somewhere in s, an '@' after a non-space character,
\* then non-space characters, the last of them before a '.', and a non-space
\* character after that '.'
EmailPattern(s) ==
  \E a, b \in 1..Len(s) :
    /\ s[a] = "@" /\ s[b] = "."
    /\ a >= 2 /\ b >= a + 2 /\ b <= Len(s) - 1
    /\ ~IsSpace(s[a - 1]) /\ ~IsSpace(s[b + 1])
    /\ \A k \in (a + 1)..(b - 1) : ~IsSpace(s[k])

\* the e-mail addresses typed into the agent login form
AgentEmails ==
  {<<>>, <<" ">>, <<"a","b">>, <<"a","@","b",".","c">>,
   <<" ","x","@","y",".","z">>}

\* --- the adapter the provider of contexts/AuthContext is written against -----
\* getCurrentUser(): { data, error }, with data.user null when unconfigured,
\* on a reported error and on a throw
getCurrentUserData(supabaseUrl_, supabaseAnonKey_, response) ==
  IF ~isSupabaseConfigured(supabaseUrl_, supabaseAnonKey_)
  THEN [data |-> [user |-> NullObject], error |-> Null]
  ELSE TryCatch(response,
         [data |-> [user |-> UserObject(response.data)], error |-> Null],
         [data |-> [user |-> NullObject], error |-> BackendError],
         [data |-> [user |-> NullObject], error |-> ThrownError])

\* signInUser(email, password): { data, error }
signInUserData(supabaseUrl_, supabaseAnonKey_, email, password, response) ==
  IF ~isSupabaseConfigured(supabaseUrl_, supabaseAnonKey_)
  THEN [data |-> [user |-> [id |-> "mock-user-id", email |-> email,
                            user_metadata |->
                              [name |-> "Test User", email |-> UndefStr,
                               role |-> "agent", company |-> Undefined]]],
        error |-> Null]
  ELSE TryCatch(response,
         [data |-> [user |-> UserObject(response.data)], error |-> Null],
         [data |-> AbsentObject, error |-> BackendError],
         [data |-> AbsentObject, error |-> ThrownError])

\* signOutUser(): { error }
signOutUserData(supabaseUrl_, supabaseAnonKey_, response) ==
  IF ~isSupabaseConfigured(supabaseUrl_, supabaseAnonKey_)
  THEN [error |-> Null]
  ELSE TryCatch(response, [error |-> Null], [error |-> BackendError],
                [error |-> ThrownError])

\* --- localStorage and JSON ---------------------------------------------------
\* getItem of a key that is not stored gives null; the text of a stored item
\* is the sequence of the members JSON.stringify wrote
NoItem == <<>>
EmptyStorage == [mockUser |-> NoItem]

\* localStorage.removeItem(key) that removes nothing
removeItemNothing(storage, key) == storage

\* localStorage.removeItem(key)
removeItem(storage, key) == [storage EXCEPT ![key] = NoItem]

\* localStorage.setItem(key, value)
setItem(storage, key, value) == [storage EXCEPT ![key] = value]

\* {}: an object without the properties a profile is read for
EmptyObject ==
  [name |-> Undefined, email |-> UndefStr, role |-> Undefined,
   company |-> Undefined]

\* JSON.stringify of a user_metadata object: a member whose value is
\* undefined is left out
JSONstringifyMetadata(m) ==
  (IF m.name /= Undefined THEN <<[key |-> "name", value |-> m.name]>> ELSE <<>>)
  \o (IF m.email /= UndefStr THEN <<[key |-> "email", value |-> m.email]>> ELSE <<>>)
  \o (IF m.role /= Undefined THEN <<[key |-> "role", value |-> m.role]>> ELSE <<>>)
  \o (IF m.company /= Undefined
      THEN <<[key |-> "company", value |-> m.company]>> ELSE <<>>)

\* JSON.stringify of { id, email, user_metadata }
JSONstringify(u) ==
  <<[key |-> "id", value |-> u.id]>>
  \o (IF u.email /= UndefStr THEN <<[key |-> "email", value |-> u.email]>> ELSE <<>>)
  \o <<[key |-> "user_metadata", value |-> JSONstringifyMetadata(u.user_metadata)]>>

\* whether the text has a member named k, and that member's value
HasMember(text, k) == \E i \in 1..Len(text) : text[i].key = k
Member(text, k) == text[CHOOSE i \in 1..Len(text) : text[i].key = k].value

\* JSON.parse of the text of a user_metadata object
JSONparseMetadata(text) ==
  [name |-> IF HasMember(text, "name") THEN Member(text, "name") ELSE Undefined,
   email |-> IF HasMember(text, "email") THEN Member(text, "email") ELSE UndefStr,
   role |-> IF HasMember(text, "role") THEN Member(text, "role") ELSE Undefined,
   company |-> IF HasMember(text, "company") THEN Member(text, "company")
               ELSE Undefined]

\* JSON.parse of a stored item: the object, or a SyntaxError for text that is
\* not the text of an object
JSONparse(text) ==
  IF ~HasMember(text, "id") THEN Thrown
  ELSE Returned(
         [id |-> Member(text, "id"),
          email |-> IF HasMember(text, "email") THEN Member(text, "email")
                    ELSE UndefStr,
          user_metadata |->
            IF HasMember(text, "user_metadata")
            THEN JSONparseMetadata(Member(text, "user_metadata"))
            ELSE EmptyObject])

\* --- contexts/AuthContext ----------------------------------------------------
NoContextPromise ==
  [state |-> "none", value |-> [data |-> [user |-> NullObject], error |-> Null]]

\* the effect with dependencies [loading, user]: with loading false and no
\* user, a stored 'mockUser' item is parsed and becomes the user, its
\* user_metadata (or {}) the profile; an item that does not parse is removed
RestoreMockUser(loading_, user_, profile_, storage) ==
  IF ~loading_ /\ user_ = NullObject /\ storage.mockUser /= NoItem
  THEN IF JSONparse(storage.mockUser).kind = "throw"
       THEN [user |-> user_, profile |-> profile_,
             localStorage |-> removeItem(storage, "mockUser")]
       ELSE [user |-> JSONparse(storage.mockUser).value,
             profile |-> JSONparse(storage.mockUser).value.user_metadata,
             localStorage |-> storage]
  ELSE [user |-> user_, profile |-> profile_, localStorage |-> storage]

\* the user object mockLogin(userData) builds
MockLoginUser(userData) ==
  [id |-> "mock-user-id", email |-> userData.email, user_metadata |-> userData]

\* no handler of the component has run yet
NoEvent == [op |-> "none", email |-> <<>>]

\* ---------------------------------------------------------------------------
\* State
\* ---------------------------------------------------------------------------
VARIABLES
  \* Home
  listings, filteredListings, propertyType, sortBy, showPetFriendlyOnly,
  \* the environment's settings, the backend's listings table, and the last
  \* adapter call with its result
  supabaseUrl, supabaseAnonKey, table, lastCall, lastResult,
  \* which AuthProvider the application's _app.js mounts: the one of
  \* lib/AuthContext ("lib"), or of contexts/AuthContext the one with
  \* mockLogin ("contexts") or the profile-based one ("profile")
  provider,
  \* SearchBar: its searchTerm state, the current handleSearchChange function
  \* object, the pending timers in firing order, the calls of onSearch so
  \* far, and the number of user events so far
  searchBarTerm, handleSearchChange, timers, onSearchCalls, events,
  \* AuthProvider: user, role, loading; whether the effect ran; the promise
  \* of the startup getCurrentUser(); whether the auth-change callback is
  \* subscribed; the backend's session; the session of the most recent
  \* notification; the number of notifications so far
  user, role, loading, mounted, currentUserPromise, subscribed,
  backendSession, lastSession, notifications,
  \* the Login page's error state; the handler of the session holder's
  \* pages that ran last; the user the holder held when the page was reloaded
  loginError, lastEvent, userBeforeReload,
  \* the provider of contexts/AuthContext: user, profile, loading; whether
  \* its effect ran; the promise of its startup getCurrentUser(); whether its
  \* auth-change callback is subscribed; the notifications it got so far; the
  \* handler that ran last; the user it held when the page was reloaded; and
  \* the browser's localStorage
  ctxUser, ctxProfile, ctxLoading, ctxMounted, ctxPromise, ctxSubscribed,
  ctxNotifications, ctxLastEvent, ctxUserBeforeReload, localStorage,
  \* Home: its searchTerm and loading state, the listing requests in flight
  \* in the order they were issued, and the number of requests issued so far
  searchTerm, homeLoading, requests, issued,
  \* EnquiryModal: formData, errors, isSubmitting, and the calls of the
  \* onSubmit callback so far
  formData, errors, isSubmitting, onSubmitCalls,
  \* the profile-based provider of contexts/AuthContext: the calls of
  \* getUserProfile in flight, in the order they were started
  profileFetches

configVars == <<supabaseUrl, supabaseAnonKey, provider>>
adapterVars == <<table, lastCall, lastResult>>
searchBarVars == <<searchBarTerm, handleSearchChange, timers, onSearchCalls, events>>
authVars ==
  <<user, role, loading, mounted, currentUserPromise, subscribed,
    backendSession, lastSession, notifications,
    loginError, lastEvent, userBeforeReload>>
contextVars ==
  <<ctxUser, ctxProfile, ctxLoading, ctxMounted, ctxPromise, ctxSubscribed,
    ctxNotifications, ctxLastEvent, ctxUserBeforeReload, localStorage>>
homeRequestVars == <<searchTerm, homeLoading, requests, issued>>
enquiryVars == <<formData, errors, isSubmitting, onSubmitCalls>>
profileVars == <<profileFetches>>
\* the state of the AuthProvider of lib/AuthContext and its pages, without
\* the backend's session
holderVars ==
  <<user, role, loading, mounted, currentUserPromise, subscribed, lastSession,
    notifications, loginError, lastEvent, userBeforeReload>>

vars ==
  <<listings, filteredListings, propertyType, sortBy, showPetFriendlyOnly,
    supabaseUrl, supabaseAnonKey, provider, table, lastCall, lastResult,
    searchBarTerm, handleSearchChange, timers, onSearchCalls, events,
    user, role, loading, mounted, currentUserPromise, subscribed,
    backendSession, lastSession, notifications,
    loginError, lastEvent, userBeforeReload,
    ctxUser, ctxProfile, ctxLoading, ctxMounted, ctxPromise, ctxSubscribed,
    ctxNotifications, ctxLastEvent, ctxUserBeforeReload, localStorage,
    searchTerm, homeLoading, requests, issued,
    formData, errors, isSubmitting, onSubmitCalls, profileFetches>>

homeVars ==
  <<listings, filteredListings, propertyType, sortBy, showPetFriendlyOnly,
    searchTerm, homeLoading, requests, issued>>

\* ---------------------------------------------------------------------------
\* Home: the derived list
\* ---------------------------------------------------------------------------
\* unconfigured, fetchListings and searchListingsByLocation do no I/O: the
\* continuation of their await runs before the next event is handled
HomeRequestsDrained ==
  isSupabaseConfigured(supabaseUrl, supabaseAnonKey) \/ requests = <<>>

\* the effect with a dependency list that misses the change: it does not run
RunEffectSkipped(listings_, propertyType_, showPetFriendlyOnly_, sortBy_) ==
  /\ listings' = listings_
  /\ filteredListings' = filteredListings

\* the effect that re-runs applyFiltersAndSort after a render in which the
\* listings or one of the three parameters changed
RunEffect(listings_, propertyType_, showPetFriendlyOnly_, sortBy_) ==
  \E r \in applyFiltersAndSort(listings_, propertyType_, showPetFriendlyOnly_, sortBy_) :
    /\ listings' = r.listings
    /\ filteredListings' = r.filteredListings

\* setListings(data) of the load started on mount, then the effect
SetListings(data) ==
  /\ listings = <<>>
  /\ propertyType' = propertyType
  /\ sortBy' = sortBy
  /\ showPetFriendlyOnly' = showPetFriendlyOnly
  /\ RunEffect(data, propertyType, showPetFriendlyOnly, sortBy)
  /\ homeLoading' = FALSE
  /\ UNCHANGED <<searchTerm, requests, issued>>
  /\ UNCHANGED <<configVars, adapterVars, searchBarVars, authVars, contextVars, enquiryVars, profileVars>>

\* onPropertyTypeChange = setPropertyType, then the effect
SetPropertyType(value) ==
  /\ HomeRequestsDrained
  /\ value /= propertyType
  /\ propertyType' = value
  /\ UNCHANGED <<sortBy, showPetFriendlyOnly>>
  /\ RunEffect(listings, value, showPetFriendlyOnly, sortBy)
  /\ UNCHANGED <<configVars, adapterVars, searchBarVars, authVars, homeRequestVars, contextVars, enquiryVars, profileVars>>

\* onSortChange = setSortBy, then the effect
SetSortBy(value) ==
  /\ HomeRequestsDrained
  /\ value /= sortBy
  /\ sortBy' = value
  /\ UNCHANGED <<propertyType, showPetFriendlyOnly>>
  /\ RunEffect(listings, propertyType, showPetFriendlyOnly, value)
  /\ UNCHANGED <<configVars, adapterVars, searchBarVars, authVars, homeRequestVars, contextVars, enquiryVars, profileVars>>

\* onPetFriendlyFilter = setShowPetFriendlyOnly, then the effect
SetShowPetFriendlyOnly(value) ==
  /\ HomeRequestsDrained
  /\ value /= showPetFriendlyOnly
  /\ showPetFriendlyOnly' = value
  /\ UNCHANGED <<propertyType, sortBy>>
  /\ RunEffect(listings, propertyType, value, sortBy)
  /\ UNCHANGED <<configVars, adapterVars, searchBarVars, authVars, homeRequestVars, contextVars, enquiryVars, profileVars>>

\* ---------------------------------------------------------------------------
\* Home: loading and searching
\* ---------------------------------------------------------------------------
\* useState({ name: '', email: '', message: '' }) and useState({})
EmptyForm == [name |-> <<>>, email |-> <<>>, message |-> <<>>]
NoErrors == [name |-> "", email |-> "", message |-> "", submit |-> ""]

\* the terms handleSearch is called with: '', ' ', 'cam', 'w1'
HomeTerms == {<<>>, <<" ">>, <<"c","a","m">>, <<"w","1">>}

\* the values of the filter controls used while searching
HomePropertyTypes == {"", "furnished"}
HomeSortOptions == {"newest", "cheapest"}

\* the backend tables Home runs against
HomeTables == {{7, 8}, {8, 9, 10}}

\* loadListings() up to its await
loadListings ==
  /\ homeLoading' = TRUE
  /\ requests' = Append(requests, [op |-> "fetchListings", searchTerm |-> <<>>])
  /\ issued' = issued + 1

\* the effect of the first render: loadListings()
HomeMount ==
  /\ issued = 0
  /\ loadListings
  /\ UNCHANGED <<listings, filteredListings, propertyType, sortBy,
                 showPetFriendlyOnly, searchTerm>>
  /\ UNCHANGED <<configVars, adapterVars, searchBarVars, authVars, contextVars, enquiryVars, profileVars>>

\* handleSearch(term) that aborts the requests in flight when it searches
handleSearchCancelling(term) ==
  /\ issued >= 1
  /\ issued < MaxRequests
  /\ HomeRequestsDrained
  /\ searchTerm' = term
  /\ IF trim(term) /= <<>>
     THEN /\ homeLoading' = TRUE
          /\ requests' = <<[op |-> "searchListingsByLocation", searchTerm |-> term]>>
          /\ issued' = issued + 1
     ELSE loadListings
  /\ IF term /= searchTerm
     THEN RunEffect(listings, propertyType, showPetFriendlyOnly, sortBy)
     ELSE UNCHANGED <<listings, filteredListings>>
  /\ UNCHANGED <<propertyType, sortBy, showPetFriendlyOnly>>
  /\ UNCHANGED <<configVars, adapterVars, searchBarVars, authVars, contextVars, enquiryVars, profileVars>>

\* handleSearch(term) up to its await, and the effect of the render (searchTerm
\* is one of its dependencies)
handleSearch(term) ==
  /\ issued >= 1
  /\ issued < MaxRequests
  /\ HomeRequestsDrained
  /\ searchTerm' = term
  /\ IF trim(term) /= <<>>
     THEN /\ homeLoading' = TRUE
          /\ requests' = Append(requests, [op |-> "searchListingsByLocation",
                                           searchTerm |-> term])
          /\ issued' = issued + 1
     ELSE loadListings
  /\ IF term /= searchTerm
     THEN RunEffect(listings, propertyType, showPetFriendlyOnly, sortBy)
     ELSE UNCHANGED <<listings, filteredListings>>
  /\ UNCHANGED <<propertyType, sortBy, showPetFriendlyOnly>>
  /\ UNCHANGED <<configVars, adapterVars, searchBarVars, authVars, contextVars, enquiryVars, profileVars>>

\* the same without setLoading(false)
RequestSettlesKeepsLoading(i, outcome) ==
  /\ i \in 1..Len(requests)
  \* unconfigured there is no backend call: one outcome stands for all
  /\ ~isSupabaseConfigured(supabaseUrl, supabaseAnonKey) => outcome = "data"
  /\ \E response \in (IF requests[i].op = "fetchListings"
                      THEN SelectAllResponses(table, outcome)
                      ELSE SelectLikeResponses(table, requests[i].searchTerm,
                                               outcome)) :
       LET result == IF requests[i].op = "fetchListings"
                     THEN fetchListings(supabaseUrl, supabaseAnonKey, response)
                     ELSE searchListingsByLocation(supabaseUrl, supabaseAnonKey,
                                                   requests[i].searchTerm, response)
       IN IF result.kind = "return"
          THEN RunEffect(result.value, propertyType, showPetFriendlyOnly, sortBy)
          ELSE UNCHANGED <<listings, filteredListings>>
  /\ homeLoading' = homeLoading
  /\ requests' = [j \in 1..(Len(requests) - 1) |->
                    IF j < i THEN requests[j] ELSE requests[j + 1]]
  /\ UNCHANGED <<propertyType, sortBy, showPetFriendlyOnly, searchTerm, issued>>
  /\ UNCHANGED <<configVars, adapterVars, searchBarVars, authVars, contextVars, enquiryVars, profileVars>>

\* the awaited call of request i settles: setListings(data) unless the call
\* threw, finally setLoading(false), then the effect
RequestSettles(i, outcome) ==
  /\ i \in 1..Len(requests)
  \* unconfigured there is no backend call: one outcome stands for all
  /\ ~isSupabaseConfigured(supabaseUrl, supabaseAnonKey) => outcome = "data"
  /\ \E response \in (IF requests[i].op = "fetchListings"
                      THEN SelectAllResponses(table, outcome)
                      ELSE SelectLikeResponses(table, requests[i].searchTerm,
                                               outcome)) :
       LET result == IF requests[i].op = "fetchListings"
                     THEN fetchListings(supabaseUrl, supabaseAnonKey, response)
                     ELSE searchListingsByLocation(supabaseUrl, supabaseAnonKey,
                                                   requests[i].searchTerm, response)
       IN IF result.kind = "return"
          THEN RunEffect(result.value, propertyType, showPetFriendlyOnly, sortBy)
          ELSE UNCHANGED <<listings, filteredListings>>
  /\ homeLoading' = FALSE
  /\ requests' = [j \in 1..(Len(requests) - 1) |->
                    IF j < i THEN requests[j] ELSE requests[j + 1]]
  /\ UNCHANGED <<propertyType, sortBy, showPetFriendlyOnly, searchTerm, issued>>
  /\ UNCHANGED <<configVars, adapterVars, searchBarVars, authVars, contextVars, enquiryVars, profileVars>>

\* ---------------------------------------------------------------------------
\* EnquiryModal
\* ---------------------------------------------------------------------------
\* the values typed into the three fields
EnquiryNames == {<<>>, <<" ">>, <<"A","l">>}
EnquiryEmails ==
  AgentEmails \cup {<<"a"," ","@","b",".","c">>, <<"a","@","b",".">>}
EnquiryMessages == {<<>>, <<" ">>, <<" ","h","i"," ">>}

\* validateForm() without the test of the message
validateFormWithoutMessage(formData_) ==
  [name |-> IF trim(formData_.name) = <<>> THEN "Name is required" ELSE "",
   email |-> IF trim(formData_.email) = <<>> THEN "Email is required"
             ELSE IF ~EmailPattern(formData_.email)
                  THEN "Please enter a valid email address"
                  ELSE "",
   message |-> "",
   submit |-> ""]

\* validateForm(): the errors it sets; a member that is '' stands for an
\* absent member
validateForm(formData_) ==
  [name |-> IF trim(formData_.name) = <<>> THEN "Name is required" ELSE "",
   email |-> IF trim(formData_.email) = <<>> THEN "Email is required"
             ELSE IF ~EmailPattern(formData_.email)
                  THEN "Please enter a valid email address"
                  ELSE "",
   message |-> IF trim(formData_.message) = <<>> THEN "Message is required" ELSE "",
   submit |-> ""]

\* handleChange(e) with e.target.name = field and e.target.value = value; the
\* inputs are disabled while isSubmitting
handleChange(field, value) ==
  /\ ~isSubmitting
  /\ formData' = [formData EXCEPT ![field] = value]
  /\ errors' = IF errors[field] /= "" THEN [errors EXCEPT ![field] = ""] ELSE errors
  /\ UNCHANGED <<isSubmitting, onSubmitCalls>>
  /\ UNCHANGED <<configVars, homeVars, adapterVars, searchBarVars, authVars,
                 contextVars, profileVars>>

\* handleSubmit(e) up to its await: validateForm(), and with no error
\* setIsSubmitting(true) and onSubmit(enquiryData) for the listing shown (the
\* timestamp of enquiryData is left out); the button is disabled while
\* isSubmitting
EnquirySubmit ==
  /\ ~isSubmitting
  /\ errors' = validateForm(formData)
  /\ IF validateForm(formData) /= NoErrors
     THEN UNCHANGED <<isSubmitting, onSubmitCalls>>
     ELSE /\ Len(onSubmitCalls) < MaxSubmits
          /\ isSubmitting' = TRUE
          /\ onSubmitCalls' =
               Append(onSubmitCalls,
                      [listing_id |-> 1, name |-> trim(formData.name),
                       email |-> trim(formData.email),
                       message |-> trim(formData.message)])
  /\ UNCHANGED formData
  /\ UNCHANGED <<configVars, homeVars, adapterVars, searchBarVars, authVars,
                 contextVars, profileVars>>

\* the promise of onSubmit(enquiryData) settles: fulfilled, the form is reset
\* and onClose() called; rejected, the submit error is set; finally
\* setIsSubmitting(false)
OnSubmitSettles(outcome) ==
  /\ isSubmitting
  /\ IF outcome = "data"
     THEN /\ formData' = EmptyForm
          /\ errors' = NoErrors
     ELSE /\ errors' = [NoErrors EXCEPT
                          !.submit = "Failed to submit enquiry. Please try again."]
          /\ UNCHANGED formData
  /\ isSubmitting' = FALSE
  /\ UNCHANGED onSubmitCalls
  /\ UNCHANGED <<configVars, homeVars, adapterVars, searchBarVars, authVars,
                 contextVars, profileVars>>

\* handleClose(): unless isSubmitting, the form is reset and onClose() called
handleClose ==
  /\ ~isSubmitting
  /\ formData' = EmptyForm
  /\ errors' = NoErrors
  /\ UNCHANGED <<isSubmitting, onSubmitCalls>>
  /\ UNCHANGED <<configVars, homeVars, adapterVars, searchBarVars, authVars,
                 contextVars, profileVars>>

\* ---------------------------------------------------------------------------
\* Backend client adapter: calls
\* ---------------------------------------------------------------------------
NoCall == [op |-> "none", configured |-> FALSE, searchTerm |-> <<>>,
           response |-> [kind |-> "none", data |-> <<>>]]
NoResult == [kind |-> "none", value |-> <<>>]

\* a call of fetchListings() and its completion
FetchListings(outcome) ==
  \E response \in SelectAllResponses(table, outcome) :
    /\ lastCall' = [op |-> "fetchListings",
                    configured |-> isSupabaseConfigured(supabaseUrl, supabaseAnonKey),
                    searchTerm |-> <<>>, response |-> response]
    /\ lastResult' = fetchListings(supabaseUrl, supabaseAnonKey, response)
    /\ UNCHANGED <<table, configVars, homeVars, searchBarVars, authVars, contextVars, enquiryVars, profileVars>>

\* a call of searchListingsByLocation(searchTerm) and its completion
SearchListingsByLocation(searchTerm_, outcome) ==
  \E response \in SelectLikeResponses(table, searchTerm_, outcome) :
    /\ lastCall' = [op |-> "searchListingsByLocation",
                    configured |-> isSupabaseConfigured(supabaseUrl, supabaseAnonKey),
                    searchTerm |-> searchTerm_, response |-> response]
    /\ lastResult' = searchListingsByLocation(supabaseUrl, supabaseAnonKey,
                                              searchTerm_, response)
    /\ UNCHANGED <<table, configVars, homeVars, searchBarVars, authVars, contextVars, enquiryVars, profileVars>>

\* the e-mail addresses and the password the adapter's auth functions are
\* called with
CallEmails == {<<"b","o","b">>, <<"a","d","m","i","n">>}
CallPassword == <<"p","w">>

\* the record of an auth call
AuthCall(op_, email, response, profileResponse) ==
  [op |-> op_, configured |-> isSupabaseConfigured(supabaseUrl, supabaseAnonKey),
   searchTerm |-> <<>>, response |-> response, email |-> email,
   profileResponse |-> profileResponse]

\* a call of signUp(email, password) and its completion
SignUp(email, outcome, profileOutcome) ==
  \E response \in AuthResponses(outcome) :
    /\ lastCall' = AuthCall("signUp", email, response,
                            [kind |-> profileOutcome, data |-> Null])
    /\ lastResult' = signUp(supabaseUrl, supabaseAnonKey, email, CallPassword,
                            response, [kind |-> profileOutcome, data |-> Null])
    /\ UNCHANGED <<table, configVars, homeVars, searchBarVars, authVars, contextVars, enquiryVars, profileVars>>

\* a call of signIn(email, password) and its completion
SignIn(email, outcome) ==
  \E response \in AuthResponses(outcome) :
    /\ response.kind = "data" => response.data /= Null
    /\ lastCall' = AuthCall("signIn", email, response, [kind |-> "none", data |-> Null])
    /\ lastResult' = signIn(supabaseUrl, supabaseAnonKey, email, CallPassword,
                            response)
    /\ UNCHANGED <<table, configVars, homeVars, searchBarVars, authVars, contextVars, enquiryVars, profileVars>>

\* a call of signOut() and its completion
SignOut(outcome) ==
  /\ lastCall' = AuthCall("signOut", <<>>, [kind |-> outcome, data |-> Null],
                          [kind |-> "none", data |-> Null])
  /\ lastResult' = signOut(supabaseUrl, supabaseAnonKey,
                           [kind |-> outcome, data |-> Null])
  /\ UNCHANGED <<table, configVars, homeVars, searchBarVars, authVars, contextVars, enquiryVars, profileVars>>

\* a call of getCurrentUser() and its completion
GetCurrentUser(outcome) ==
  \E response \in AuthResponses(outcome) :
    /\ lastCall' = AuthCall("getCurrentUser", <<>>, response,
                            [kind |-> "none", data |-> Null])
    /\ lastResult' = getCurrentUserCall(supabaseUrl, supabaseAnonKey, response)
    /\ UNCHANGED <<table, configVars, homeVars, searchBarVars, authVars, contextVars, enquiryVars, profileVars>>

\* a call of signUpUser(email, password, role) and its completion
SignUpUser(email, role_, outcome) ==
  \E response \in AuthResponses(outcome) :
    /\ response.kind = "data" => response.data /= Null
    /\ lastCall' = AuthCall("signUpUser", email, response,
                            [kind |-> "none", data |-> Null])
    /\ lastResult' = signUpUser(supabaseUrl, supabaseAnonKey, email, CallPassword,
                                role_, response)
    /\ UNCHANGED <<table, configVars, homeVars, searchBarVars, authVars, contextVars, enquiryVars, profileVars>>

\* a call of signInUser(email, password) and its completion
SignInUser(email, outcome) ==
  \E response \in AuthResponses(outcome) :
    /\ response.kind = "data" => response.data /= Null
    /\ lastCall' = AuthCall("signInUser", email, response,
                            [kind |-> "none", data |-> Null])
    /\ lastResult' = signInUser(supabaseUrl, supabaseAnonKey, email, CallPassword,
                                response)
    /\ UNCHANGED <<table, configVars, homeVars, searchBarVars, authVars, contextVars, enquiryVars, profileVars>>

\* a call of signOutUser() and its completion
SignOutUser(outcome) ==
  /\ lastCall' = AuthCall("signOutUser", <<>>, [kind |-> outcome, data |-> Null],
                          [kind |-> "none", data |-> Null])
  /\ lastResult' = signOutUser(supabaseUrl, supabaseAnonKey,
                               [kind |-> outcome, data |-> Null])
  /\ UNCHANGED <<table, configVars, homeVars, searchBarVars, authVars, contextVars, enquiryVars, profileVars>>

\* handleSearchChange(e) with e.target.value = value, and the render that
\* setSearchTerm(value) causes before the next event is handled; timer ids
\* count the change events
HandleSearchChange(value) ==
  /\ events < MaxEvents
  /\ value /= searchBarTerm
  /\ events' = events + 1
  /\ searchBarTerm' = value
  /\ timers' = Append(clearTimeout(timers, handleSearchChange.timeoutId),
                      [id |-> events + 1, value |-> value])
  /\ handleSearchChange' = AfterRender([timeoutId |-> events + 1])
  /\ UNCHANGED onSearchCalls
  /\ UNCHANGED <<configVars, homeVars, adapterVars, authVars, contextVars, enquiryVars, profileVars>>

\* the callback of the oldest pending timer runs after its 300 ms: it calls
\* onSearch(value), whose state updates in Home render SearchBar again
TimerFires ==
  /\ timers /= <<>>
  /\ onSearchCalls' = Append(onSearchCalls, [by |-> "timer", term |-> Head(timers).value])
  /\ timers' = Tail(timers)
  /\ handleSearchChange' = AfterRender(handleSearchChange)
  /\ UNCHANGED <<searchBarTerm, events>>
  /\ UNCHANGED <<configVars, homeVars, adapterVars, authVars, contextVars, enquiryVars, profileVars>>

\* handleSubmit(e): onSearch(searchTerm) at once; pending timers stay
HandleSubmit ==
  /\ events < MaxEvents
  /\ events' = events + 1
  /\ onSearchCalls' = Append(onSearchCalls, [by |-> "submit", term |-> searchBarTerm])
  /\ handleSearchChange' = AfterRender(handleSearchChange)
  /\ UNCHANGED <<searchBarTerm, timers>>
  /\ UNCHANGED <<configVars, homeVars, adapterVars, authVars, contextVars, enquiryVars, profileVars>>

\* clearSearch(): the button is rendered only while searchTerm is non-empty
ClearSearch ==
  /\ events < MaxEvents
  /\ searchBarTerm /= <<>>
  /\ events' = events + 1
  /\ searchBarTerm' = <<>>
  /\ onSearchCalls' = Append(onSearchCalls, [by |-> "clear", term |-> <<>>])
  /\ handleSearchChange' = AfterRender(handleSearchChange)
  /\ UNCHANGED timers
  /\ UNCHANGED <<configVars, homeVars, adapterVars, authVars, contextVars, enquiryVars, profileVars>>

\* ---------------------------------------------------------------------------
\* AuthProvider: startup and auth-change notifications
\* ---------------------------------------------------------------------------
NoPromise == [state |-> "none", value |-> Null]

\* the effect: getCurrentUser() is called and its promise is pending; when
\* configured the auth-change callback is subscribed, else loading is cleared
Mount ==
  /\ provider = "lib"
  /\ ~mounted
  /\ mounted' = TRUE
  /\ currentUserPromise' = [state |-> "pending", value |-> Null]
  /\ IF isSupabaseConfigured(supabaseUrl, supabaseAnonKey)
     THEN subscribed' = TRUE /\ loading' = loading
     ELSE subscribed' = subscribed /\ loading' = FALSE
  /\ UNCHANGED <<user, role, backendSession, lastSession, notifications>>
  /\ UNCHANGED <<loginError, lastEvent, userBeforeReload>>
  /\ UNCHANGED <<configVars, homeVars, adapterVars, searchBarVars, contextVars, enquiryVars, profileVars>>

\* the startup getCurrentUser() settles: the backend answers with the session
\* it holds at that moment, reports an error, or the call throws
GetCurrentUserSettles(outcome) ==
  /\ currentUserPromise.state = "pending"
  /\ currentUserPromise' =
       [state |-> "resolved",
        value |-> getCurrentUser(supabaseUrl, supabaseAnonKey,
                                 [kind |-> outcome, data |-> backendSession])]
  /\ UNCHANGED <<user, role, loading, mounted, subscribed, backendSession,
                 lastSession, notifications>>
  /\ UNCHANGED <<loginError, lastEvent, userBeforeReload>>
  /\ UNCHANGED <<configVars, homeVars, adapterVars, searchBarVars, contextVars, enquiryVars, profileVars>>

\* the .then callback of the startup getCurrentUser()
GetCurrentUserThen ==
  /\ currentUserPromise.state = "resolved"
  /\ user' = currentUserPromise.value
  /\ role' = getUserRole(currentUserPromise.value)
  /\ loading' = FALSE
  /\ currentUserPromise' = [currentUserPromise EXCEPT !.state = "applied"]
  /\ lastEvent' = [op |-> "startup", email |-> <<>>]
  /\ UNCHANGED <<mounted, subscribed, backendSession, lastSession, notifications>>
  /\ UNCHANGED <<loginError, userBeforeReload>>
  /\ UNCHANGED <<configVars, homeVars, adapterVars, searchBarVars, contextVars, enquiryVars, profileVars>>

\* the backend's session becomes session and the subscribed callback is
\* invoked with it
AuthStateChange(session) ==
  /\ subscribed
  /\ notifications < MaxNotifs
  /\ notifications' = notifications + 1
  /\ backendSession' = session
  /\ lastSession' = session
  /\ user' = SessionUser(session)
  /\ role' = getUserRole(SessionUser(session))
  /\ loading' = FALSE
  /\ lastEvent' = [op |-> "authStateChange", email |-> <<>>]
  /\ UNCHANGED <<mounted, currentUserPromise, subscribed>>
  /\ UNCHANGED <<loginError, userBeforeReload>>
  /\ UNCHANGED <<configVars, homeVars, adapterVars, searchBarVars, contextVars, enquiryVars, profileVars>>

\* ---------------------------------------------------------------------------
\* AuthProvider: manual updates in mock mode, sign-in, sign-out, reload
\* ---------------------------------------------------------------------------
\* the setters called from one callback are applied together, in one render
\* (automatic batching); a variant that leaves out setRole(newRole)
updateAuthStateUserOnly(newUser, newRole) ==
  /\ user' = newUser
  /\ role' = role
  /\ loading' = FALSE

\* a variant that leaves out setUser(newUser)
updateAuthStateRoleOnly(newUser, newRole) ==
  /\ user' = user
  /\ role' = newRole
  /\ loading' = FALSE

\* updateAuthState(newUser, newRole): setUser, setRole, setLoading(false)
updateAuthState(newUser, newRole) ==
  /\ user' = newUser
  /\ role' = newRole
  /\ loading' = FALSE

\* isAuthenticated: !!user
isAuthenticated == user /= Null
\* isAdmin: role === 'admin', isAgent: role === 'agent', isTenant: role === 'tenant'
isAdmin == role = "admin"
isAgent == role = "agent"
isTenant == role = "tenant"

\* the .then callback of getCurrentUser() may run after any later event
StartupDrainedOrNot == TRUE

\* unconfigured, getCurrentUser() does no I/O: its promise is resolved when the
\* effect returns and its .then callback runs before any later event
StartupDrained ==
  isSupabaseConfigured(supabaseUrl, supabaseAnonKey)
    \/ currentUserPromise.state = "applied"

\* the backend's session changed by a call of this page: the subscribed
\* callback is invoked with it before the call returns
SessionChanged(session) ==
  /\ notifications < MaxNotifs
  /\ notifications' = notifications + 1
  /\ backendSession' = session
  /\ lastSession' = IF subscribed THEN session ELSE lastSession
  /\ user' = IF subscribed THEN SessionUser(session) ELSE user
  /\ role' = IF subscribed THEN getUserRole(SessionUser(session)) ELSE role
  /\ loading' = IF subscribed THEN FALSE ELSE loading

\* Login.handleSubmit with the form holding email and password: validation,
\* signInUser, and in mock mode updateAuthState(mockUser, mockRole)
LoginSubmit(email, password, outcome) ==
  /\ mounted
  /\ StartupDrained
  /\ ~isAuthenticated
  /\ lastEvent' = [op |-> "handleSubmit", email |-> email]
  /\ IF email = <<>> \/ password = <<>>
     THEN /\ outcome = "data"
          /\ loginError' = "Please fill in all fields"
          /\ UNCHANGED <<user, role, loading, backendSession, lastSession,
                         notifications>>
     ELSE \E response \in AuthResponses(outcome) :
            LET result == signInUser(supabaseUrl, supabaseAnonKey, email,
                                     password, response).value
            IN /\ response.kind = "data" => response.data /= Null
               \* unconfigured there is no backend call: one response
               \* stands for all of them
               /\ ~isSupabaseConfigured(supabaseUrl, supabaseAnonKey)
                    => (outcome = "data" /\ response.data = "user-plain")
               /\ IF result.error /= Null
                  THEN /\ loginError' = result.error
                       /\ UNCHANGED <<user, role, loading, backendSession,
                                      lastSession, notifications>>
                  ELSE IF Truthy(result.mockMode)
                  THEN /\ loginError' = ""
                       /\ updateAuthState(MockUserId, mockRole(email))
                       /\ UNCHANGED <<backendSession, lastSession, notifications>>
                  ELSE /\ loginError' = ""
                       /\ SessionChanged(response.data)
  /\ UNCHANGED <<mounted, currentUserPromise, subscribed, userBeforeReload>>
  /\ UNCHANGED <<configVars, homeVars, adapterVars, searchBarVars, contextVars, enquiryVars, profileVars>>

\* Home.handleLogout: signOutUser, and in mock mode updateAuthState(null, null)
HandleLogout(outcome) ==
  /\ mounted
  /\ StartupDrained
  /\ isAuthenticated
  /\ ~loading
  /\ lastEvent' = [op |-> "handleLogout", email |-> <<>>]
  /\ \E response \in AuthResponses(outcome) :
       LET result == signOutUser(supabaseUrl, supabaseAnonKey, response).value
       IN /\ response.data = Null
          /\ ~isSupabaseConfigured(supabaseUrl, supabaseAnonKey) => outcome = "data"
          /\ IF Truthy(result.mockMode)
             THEN /\ updateAuthState(Null, Null)
                  /\ UNCHANGED <<backendSession, lastSession, notifications>>
             ELSE IF result.error = Null
             THEN SessionChanged(Null)
             ELSE UNCHANGED <<user, role, loading, backendSession, lastSession,
                              notifications>>
  /\ UNCHANGED <<mounted, currentUserPromise, subscribed, loginError,
                 userBeforeReload>>
  /\ UNCHANGED <<configVars, homeVars, adapterVars, searchBarVars, contextVars, enquiryVars, profileVars>>

\* the page is reloaded: the component state is constructed again, the
\* backend's session stays
Reload ==
  /\ mounted
  /\ StartupDrained
  /\ userBeforeReload' = user
  /\ lastEvent' = [op |-> "reload", email |-> <<>>]
  /\ user' = Null
  /\ role' = Null
  /\ loading' = TRUE
  /\ mounted' = FALSE
  /\ currentUserPromise' = NoPromise
  /\ subscribed' = FALSE
  /\ lastSession' = "none"
  /\ loginError' = ""
  /\ UNCHANGED <<backendSession, notifications>>
  /\ UNCHANGED <<configVars, homeVars, adapterVars, searchBarVars, contextVars, enquiryVars, profileVars>>

\* ---------------------------------------------------------------------------
\* The provider of contexts/AuthContext: startup, mockLogin, restore, logout
\* ---------------------------------------------------------------------------
\* unconfigured, getCurrentUser() does no I/O: its .then callback runs before
\* any later event
ContextStartupDrained ==
  isSupabaseConfigured(supabaseUrl, supabaseAnonKey)
    \/ ctxPromise.state = "applied"

\* the render after the setters of one callback, and the restore effect when
\* loading or user changed in it
Commit(loading_, user_, profile_, storage) ==
  LET restored == IF loading_ /= ctxLoading \/ user_ /= ctxUser
                  THEN RestoreMockUser(loading_, user_, profile_, storage)
                  ELSE [user |-> user_, profile |-> profile_,
                        localStorage |-> storage]
  IN /\ ctxLoading' = loading_
     /\ ctxUser' = restored.user
     /\ ctxProfile' = restored.profile
     /\ localStorage' = restored.localStorage

\* the first effect: getCurrentUser() is called, and when configured the
\* auth-change callback is subscribed
ContextMount ==
  /\ provider = "contexts"
  /\ ~ctxMounted
  /\ ctxMounted' = TRUE
  /\ ctxPromise' = [ctxPromise EXCEPT !.state = "pending"]
  /\ ctxSubscribed' = isSupabaseConfigured(supabaseUrl, supabaseAnonKey)
  /\ UNCHANGED <<ctxUser, ctxProfile, ctxLoading, ctxNotifications, ctxLastEvent,
                 ctxUserBeforeReload, localStorage>>
  /\ UNCHANGED <<configVars, homeVars, adapterVars, searchBarVars, authVars, enquiryVars, profileVars>>

\* the startup getCurrentUser() settles
ContextGetCurrentUserSettles(outcome) ==
  /\ ctxPromise.state = "pending"
  /\ ~isSupabaseConfigured(supabaseUrl, supabaseAnonKey) => outcome = "data"
  /\ ctxPromise' =
       [state |-> "resolved",
        value |-> getCurrentUserData(supabaseUrl, supabaseAnonKey,
                                     [kind |-> outcome, data |-> backendSession])]
  /\ UNCHANGED <<ctxUser, ctxProfile, ctxLoading, ctxMounted, ctxSubscribed,
                 ctxNotifications, ctxLastEvent, ctxUserBeforeReload,
                 localStorage>>
  /\ UNCHANGED <<configVars, homeVars, adapterVars, searchBarVars, authVars, enquiryVars, profileVars>>

\* its .then callback: user and profile when data.user is set and there is no
\* error, then setLoading(false)
ContextGetCurrentUserThen ==
  /\ ctxPromise.state = "resolved"
  /\ ctxPromise' = [ctxPromise EXCEPT !.state = "applied"]
  /\ ctxLastEvent' = [op |-> "startup", email |-> <<>>]
  /\ IF ctxPromise.value.data.user /= NullObject /\ ctxPromise.value.error = Null
     THEN Commit(FALSE, ctxPromise.value.data.user,
                 ctxPromise.value.data.user.user_metadata, localStorage)
     ELSE Commit(FALSE, ctxUser, ctxProfile, localStorage)
  /\ UNCHANGED <<ctxMounted, ctxSubscribed, ctxNotifications, ctxUserBeforeReload>>
  /\ UNCHANGED <<configVars, homeVars, adapterVars, searchBarVars, authVars, enquiryVars, profileVars>>

\* the subscribed callback's setters for a session
ContextCallback(session) ==
  IF session /= Null
  THEN Commit(FALSE, UserObject(session), UserObject(session).user_metadata,
              localStorage)
  ELSE Commit(FALSE, NullObject, NullObject, localStorage)

\* the backend's session becomes session and the subscribed callback is
\* invoked with it
ContextAuthStateChange(session) ==
  /\ ctxSubscribed
  /\ ctxNotifications < MaxNotifs
  /\ ctxNotifications' = ctxNotifications + 1
  /\ backendSession' = session
  /\ ctxLastEvent' = [op |-> "authStateChange", email |-> <<>>]
  /\ ContextCallback(session)
  /\ UNCHANGED <<ctxMounted, ctxPromise, ctxSubscribed, ctxUserBeforeReload>>
  /\ UNCHANGED <<configVars, homeVars, adapterVars, searchBarVars, holderVars, enquiryVars, profileVars>>

\* mockLogin(userData): setUser(mockUser), setProfile(userData) and
\* localStorage.setItem('mockUser', JSON.stringify(mockUser))
mockLogin(userData) ==
  Commit(ctxLoading, MockLoginUser(userData), userData,
         setItem(localStorage, "mockUser", JSONstringify(MockLoginUser(userData))))

\* AgentLogin.handleSubmit: validateForm; unconfigured, mockLogin of a test
\* agent with the trimmed e-mail; configured, signInUser
AgentLoginSubmit(email, password, outcome) ==
  /\ ctxMounted
  /\ ContextStartupDrained
  /\ ctxUser = NullObject
  /\ ctxLastEvent' = [op |-> "handleSubmit", email |-> email]
  /\ IF trim(email) = <<>> \/ ~EmailPattern(email) \/ password = <<>>
     THEN /\ outcome = "data"
          /\ UNCHANGED <<ctxUser, ctxProfile, ctxLoading, localStorage,
                         ctxNotifications, backendSession>>
     ELSE IF ~isSupabaseConfigured(supabaseUrl, supabaseAnonKey)
     THEN /\ outcome = "data"
          /\ mockLogin([name |-> "Test Agent", email |-> trim(email),
                        role |-> "agent", company |-> "Test Estate Agency"])
          /\ UNCHANGED <<ctxNotifications, backendSession>>
     ELSE \E response \in AuthResponses(outcome) :
            /\ response.kind = "data" => response.data /= Null
            /\ IF signInUserData(supabaseUrl, supabaseAnonKey, trim(email),
                                 password, response).error = Null
               THEN /\ ctxNotifications < MaxNotifs
                    /\ ctxNotifications' = ctxNotifications + 1
                    /\ backendSession' = response.data
                    /\ IF ctxSubscribed
                       THEN ContextCallback(response.data)
                       ELSE UNCHANGED <<ctxUser, ctxProfile, ctxLoading,
                                        localStorage>>
               ELSE UNCHANGED <<ctxUser, ctxProfile, ctxLoading, localStorage,
                                ctxNotifications, backendSession>>
  /\ UNCHANGED <<ctxMounted, ctxPromise, ctxSubscribed, ctxUserBeforeReload>>
  /\ UNCHANGED <<configVars, homeVars, adapterVars, searchBarVars, holderVars, enquiryVars, profileVars>>

\* logout(): await signOutUser(), which does not throw, then setUser(null),
\* setProfile(null) and localStorage.removeItem('mockUser'); a configured
\* sign-out that succeeds ends the backend's session
ContextLogout(outcome) ==
  /\ ctxMounted
  /\ ContextStartupDrained
  /\ ~isSupabaseConfigured(supabaseUrl, supabaseAnonKey) => outcome = "data"
  /\ ctxLastEvent' = [op |-> "logout", email |-> <<>>]
  /\ backendSession' =
       IF /\ isSupabaseConfigured(supabaseUrl, supabaseAnonKey)
          /\ signOutUserData(supabaseUrl, supabaseAnonKey,
                             [kind |-> outcome, data |-> Null]).error = Null
       THEN Null ELSE backendSession
  /\ Commit(IF /\ ctxSubscribed
               /\ signOutUserData(supabaseUrl, supabaseAnonKey,
                                  [kind |-> outcome, data |-> Null]).error = Null
            THEN FALSE ELSE ctxLoading,
            NullObject, NullObject, removeItem(localStorage, "mockUser"))
  /\ UNCHANGED <<ctxMounted, ctxPromise, ctxSubscribed, ctxNotifications,
                 ctxUserBeforeReload>>
  /\ UNCHANGED <<configVars, homeVars, adapterVars, searchBarVars, holderVars, enquiryVars, profileVars>>

\* the page is reloaded: the provider's state is constructed again,
\* localStorage and the backend's session stay
ContextReload ==
  /\ ctxMounted
  /\ ContextStartupDrained
  /\ ctxUserBeforeReload' = ctxUser
  /\ ctxLastEvent' = [op |-> "reload", email |-> <<>>]
  /\ ctxUser' = NullObject
  /\ ctxProfile' = NullObject
  /\ ctxLoading' = TRUE
  /\ ctxMounted' = FALSE
  /\ ctxPromise' = NoContextPromise
  /\ ctxSubscribed' = FALSE
  /\ UNCHANGED <<ctxNotifications, localStorage>>
  /\ UNCHANGED <<configVars, homeVars, adapterVars, searchBarVars, authVars, enquiryVars, profileVars>>

\* ---------------------------------------------------------------------------
\* The profile-based provider of contexts/AuthContext: startup, auth-change
\* callback, profile fetches, signOut
\* ---------------------------------------------------------------------------
\* the effect: getCurrentUser() is called and the auth-change callback is
\* subscribed (onAuthStateChange subscribes nothing when unconfigured)
ProfileMount ==
  /\ provider = "profile"
  /\ ~ctxMounted
  /\ ctxMounted' = TRUE
  /\ ctxPromise' = [ctxPromise EXCEPT !.state = "pending"]
  /\ ctxSubscribed' = isSupabaseConfigured(supabaseUrl, supabaseAnonKey)
  /\ UNCHANGED <<ctxUser, ctxProfile, ctxLoading, ctxNotifications, ctxLastEvent,
                 ctxUserBeforeReload, localStorage, profileFetches>>
  /\ UNCHANGED <<configVars, homeVars, adapterVars, searchBarVars, authVars, enquiryVars>>

\* the startup getCurrentUser() settles with the user of the backend's
\* session, or null
ProfileGetCurrentUserSettles(outcome) ==
  /\ provider = "profile"
  /\ ctxPromise.state = "pending"
  /\ ~isSupabaseConfigured(supabaseUrl, supabaseAnonKey) => outcome = "data"
  /\ ctxPromise' =
       [state |-> "resolved",
        value |-> [data |-> [user |-> UserObject(
                     getCurrentUser(supabaseUrl, supabaseAnonKey,
                                    [kind |-> outcome, data |-> backendSession]))],
                   error |-> Null]]
  /\ UNCHANGED <<ctxUser, ctxProfile, ctxLoading, ctxMounted, ctxSubscribed,
                 ctxNotifications, ctxLastEvent, ctxUserBeforeReload,
                 localStorage, profileFetches>>
  /\ UNCHANGED <<configVars, homeVars, adapterVars, searchBarVars, authVars, enquiryVars>>

\* its .then callback: setUser(initialUser); with a user,
\* getUserProfile(initialUser.id).then(setProfile) is started; setLoading(false)
ProfileGetCurrentUserThen ==
  /\ provider = "profile"
  /\ ctxPromise.state = "resolved"
  /\ ctxPromise.value.data.user /= NullObject => Len(profileFetches) < MaxFetches
  /\ ctxPromise' = [ctxPromise EXCEPT !.state = "applied"]
  /\ ctxLastEvent' = [op |-> "startup", email |-> <<>>]
  /\ ctxUser' = ctxPromise.value.data.user
  /\ ctxLoading' = FALSE
  /\ profileFetches' =
       IF ctxPromise.value.data.user /= NullObject
       THEN Append(profileFetches,
                   [userId |-> ctxPromise.value.data.user.id, from |-> "startup"])
       ELSE profileFetches
  /\ UNCHANGED <<ctxProfile, ctxMounted, ctxSubscribed, ctxNotifications,
                 ctxUserBeforeReload, localStorage>>
  /\ UNCHANGED <<configVars, homeVars, adapterVars, searchBarVars, authVars, enquiryVars>>

\* the subscribed callback up to its await: setUser(session?.user || null);
\* with a user getUserProfile(currentUser.id) is started, without one
\* setProfile(null) and setLoading(false)
ProfileCallback(session) ==
  /\ ctxUser' = UserObject(SessionUser(session))
  /\ IF SessionUser(session) /= Null
     THEN /\ profileFetches' =
               Append(profileFetches,
                      [userId |-> SessionUser(session), from |-> "callback"])
          /\ UNCHANGED <<ctxProfile, ctxLoading>>
     ELSE /\ ctxProfile' = NullObject
          /\ ctxLoading' = FALSE
          /\ UNCHANGED profileFetches

\* the backend's session becomes session and the subscribed callback is
\* invoked with it
ProfileAuthStateChange(session) ==
  /\ provider = "profile"
  /\ ctxSubscribed
  /\ ctxNotifications < MaxNotifs
  /\ session /= Null => Len(profileFetches) < MaxFetches
  /\ ctxNotifications' = ctxNotifications + 1
  /\ backendSession' = session
  /\ ctxLastEvent' = [op |-> "authStateChange", email |-> <<>>]
  /\ ProfileCallback(session)
  /\ UNCHANGED <<ctxMounted, ctxPromise, ctxSubscribed, ctxUserBeforeReload,
                 localStorage>>
  /\ UNCHANGED <<configVars, homeVars, adapterVars, searchBarVars, holderVars, enquiryVars>>

\* a getUserProfile in flight completes: setProfile(result), and in the
\* auth-change callback setLoading(false) after it
ProfileFetchSettles(i, outcome) ==
  /\ provider = "profile"
  /\ i \in 1..Len(profileFetches)
  /\ ctxProfile' = getUserProfile(supabaseUrl, supabaseAnonKey,
                                  profileFetches[i].userId,
                                  [kind |-> outcome, data |-> Null])
  /\ ctxLoading' = IF profileFetches[i].from = "callback" THEN FALSE ELSE ctxLoading
  /\ profileFetches' = [j \in 1..(Len(profileFetches) - 1) |->
                          IF j < i THEN profileFetches[j] ELSE profileFetches[j + 1]]
  /\ ctxLastEvent' = [op |-> "profileFetched", email |-> <<>>]
  /\ UNCHANGED <<ctxUser, ctxMounted, ctxPromise, ctxSubscribed, ctxNotifications,
                 ctxUserBeforeReload, localStorage>>
  /\ UNCHANGED <<configVars, homeVars, adapterVars, searchBarVars, authVars, enquiryVars>>

\* signOut(): await supabaseSignOut(), which does not throw, then
\* setUser(null) and setProfile(null); a sign-out that succeeds ends the
\* backend's session, and the subscribed callback is invoked with no session
ProfileSignOut(outcome) ==
  /\ provider = "profile"
  /\ ctxMounted
  /\ ctxPromise.state = "applied"
  /\ ctxUser /= NullObject
  /\ ctxLastEvent' = [op |-> "signOut", email |-> <<>>]
  /\ LET result == signOut(supabaseUrl, supabaseAnonKey,
                           [kind |-> outcome, data |-> Null]).value
     IN /\ backendSession' = IF result.error = Null THEN Null ELSE backendSession
        /\ ctxLoading' = IF ctxSubscribed /\ result.error = Null
                         THEN FALSE ELSE ctxLoading
  /\ ctxUser' = NullObject
  /\ ctxProfile' = NullObject
  /\ UNCHANGED <<ctxMounted, ctxPromise, ctxSubscribed, ctxNotifications,
                 ctxUserBeforeReload, localStorage, profileFetches>>
  /\ UNCHANGED <<configVars, homeVars, adapterVars, searchBarVars, holderVars, enquiryVars>>


\* the application is started again with other settings in the environment:
\* both providers are constructed again, localStorage stays, and the new
\* backend holds no session for this browser
Redeploy(supabaseUrl_, supabaseAnonKey_) ==
  /\ <<supabaseUrl_, supabaseAnonKey_>> /= <<supabaseUrl, supabaseAnonKey>>
  /\ supabaseUrl' = supabaseUrl_
  /\ supabaseAnonKey' = supabaseAnonKey_
  /\ provider' = provider
  /\ backendSession' = Null
  /\ user' = Null
  /\ role' = Null
  /\ loading' = TRUE
  /\ mounted' = FALSE
  /\ currentUserPromise' = NoPromise
  /\ subscribed' = FALSE
  /\ lastSession' = "none"
  /\ loginError' = ""
  /\ lastEvent' = NoEvent
  /\ userBeforeReload' = Null
  /\ ctxUser' = NullObject
  /\ ctxProfile' = NullObject
  /\ ctxLoading' = TRUE
  /\ ctxMounted' = FALSE
  /\ ctxPromise' = NoContextPromise
  /\ ctxSubscribed' = FALSE
  /\ ctxLastEvent' = NoEvent
  /\ ctxUserBeforeReload' = NullObject
  /\ UNCHANGED <<notifications, ctxNotifications, localStorage>>
  /\ UNCHANGED <<homeVars, adapterVars, searchBarVars, enquiryVars, profileVars>>

\* ---------------------------------------------------------------------------
\* Specifications
\* ---------------------------------------------------------------------------
NextPipeline ==
  \/ \E data \in InputCollections : SetListings(data)
  \/ \E value \in propertyTypes : SetPropertyType(value)
  \/ \E value \in sortOptions : SetSortBy(value)
  \/ \E value \in BOOLEAN : SetShowPetFriendlyOnly(value)

\* Home after construction (useState initial values, the first effect has
\* run on the empty list); the other components at rest
InitPipeline ==
  /\ listings = <<>>
  /\ filteredListings = <<>>
  /\ propertyType = ""
  /\ sortBy = "newest"
  /\ showPetFriendlyOnly = FALSE
  /\ supabaseUrl = Undefined
  /\ supabaseAnonKey = Undefined
  /\ provider = "lib"
  /\ table = {}
  /\ lastCall = NoCall
  /\ lastResult = NoResult
  /\ searchBarTerm = <<>>
  /\ handleSearchChange = [timeoutId |-> NoTimer]
  /\ timers = <<>>
  /\ onSearchCalls = <<>>
  /\ events = 0
  /\ user = Null
  /\ role = Null
  /\ loading = TRUE
  /\ mounted = FALSE
  /\ currentUserPromise = NoPromise
  /\ subscribed = FALSE
  /\ lastSession = "none"
  /\ notifications = 0
  /\ backendSession = Null
  /\ loginError = ""
  /\ lastEvent = NoEvent
  /\ userBeforeReload = Null
  /\ ctxUser = NullObject
  /\ ctxProfile = NullObject
  /\ ctxLoading = TRUE
  /\ ctxMounted = FALSE
  /\ ctxPromise = NoContextPromise
  /\ ctxSubscribed = FALSE
  /\ ctxNotifications = 0
  /\ ctxLastEvent = NoEvent
  /\ ctxUserBeforeReload = NullObject
  /\ localStorage = EmptyStorage
  /\ searchTerm = <<>>
  /\ homeLoading = TRUE
  /\ requests = <<>>
  /\ issued = 0
  /\ formData = EmptyForm
  /\ errors = NoErrors
  /\ isSubmitting = FALSE
  /\ onSubmitCalls = <<>>
  /\ profileFetches = <<>>

\* the pipeline on the home page, over every input collection
SpecPipeline == InitPipeline /\ [][NextPipeline]_vars

NextAdapter ==
  \/ \E outcome \in BackendOutcomes : FetchListings(outcome)
  \/ \E searchTerm_ \in SearchTerms, outcome \in BackendOutcomes :
       SearchListingsByLocation(searchTerm_, outcome)

\* the two settings as read from the environment at process start, the rows
\* the backend holds, no call made yet
InitAdapter ==
  /\ listings = <<>>
  /\ filteredListings = <<>>
  /\ propertyType = ""
  /\ sortBy = "newest"
  /\ showPetFriendlyOnly = FALSE
  /\ supabaseUrl \in UrlValues
  /\ supabaseAnonKey \in KeyValues
  /\ provider = "lib"
  /\ table \in {Range(s) : s \in DistinctSeqs(RowIds, MaxLen)}
  /\ lastCall = NoCall
  /\ lastResult = NoResult
  /\ searchBarTerm = <<>>
  /\ handleSearchChange = [timeoutId |-> NoTimer]
  /\ timers = <<>>
  /\ onSearchCalls = <<>>
  /\ events = 0
  /\ user = Null
  /\ role = Null
  /\ loading = TRUE
  /\ mounted = FALSE
  /\ currentUserPromise = NoPromise
  /\ subscribed = FALSE
  /\ lastSession = "none"
  /\ notifications = 0
  /\ backendSession = Null
  /\ loginError = ""
  /\ lastEvent = NoEvent
  /\ userBeforeReload = Null
  /\ ctxUser = NullObject
  /\ ctxProfile = NullObject
  /\ ctxLoading = TRUE
  /\ ctxMounted = FALSE
  /\ ctxPromise = NoContextPromise
  /\ ctxSubscribed = FALSE
  /\ ctxNotifications = 0
  /\ ctxLastEvent = NoEvent
  /\ ctxUserBeforeReload = NullObject
  /\ localStorage = EmptyStorage
  /\ searchTerm = <<>>
  /\ homeLoading = TRUE
  /\ requests = <<>>
  /\ issued = 0
  /\ formData = EmptyForm
  /\ errors = NoErrors
  /\ isSubmitting = FALSE
  /\ onSubmitCalls = <<>>
  /\ profileFetches = <<>>

\* the adapter's listing reads, over every setting and backend table
SpecAdapter == InitAdapter /\ [][NextAdapter]_vars

NextAdapterAuth ==
  \/ \E email \in CallEmails, outcome \in BackendOutcomes,
        profileOutcome \in BackendOutcomes :
       SignUp(email, outcome, profileOutcome)
  \/ \E email \in CallEmails, outcome \in BackendOutcomes : SignIn(email, outcome)
  \/ \E outcome \in BackendOutcomes : SignOut(outcome)
  \/ \E outcome \in BackendOutcomes : GetCurrentUser(outcome)
  \/ \E email \in CallEmails, role_ \in {"tenant", "agent"},
        outcome \in BackendOutcomes :
       SignUpUser(email, role_, outcome)
  \/ \E email \in CallEmails, outcome \in BackendOutcomes :
       SignInUser(email, outcome)
  \/ \E outcome \in BackendOutcomes : SignOutUser(outcome)

InitAdapterAuth ==
  /\ listings = <<>>
  /\ filteredListings = <<>>
  /\ propertyType = ""
  /\ sortBy = "newest"
  /\ showPetFriendlyOnly = FALSE
  /\ supabaseUrl \in UrlValues
  /\ supabaseAnonKey \in KeyValues
  /\ provider = "lib"
  /\ table = {}
  /\ lastCall = NoCall
  /\ lastResult = NoResult
  /\ searchBarTerm = <<>>
  /\ handleSearchChange = [timeoutId |-> NoTimer]
  /\ timers = <<>>
  /\ onSearchCalls = <<>>
  /\ events = 0
  /\ user = Null
  /\ role = Null
  /\ loading = TRUE
  /\ mounted = FALSE
  /\ currentUserPromise = NoPromise
  /\ subscribed = FALSE
  /\ lastSession = "none"
  /\ notifications = 0
  /\ backendSession = Null
  /\ loginError = ""
  /\ lastEvent = NoEvent
  /\ userBeforeReload = Null
  /\ ctxUser = NullObject
  /\ ctxProfile = NullObject
  /\ ctxLoading = TRUE
  /\ ctxMounted = FALSE
  /\ ctxPromise = NoContextPromise
  /\ ctxSubscribed = FALSE
  /\ ctxNotifications = 0
  /\ ctxLastEvent = NoEvent
  /\ ctxUserBeforeReload = NullObject
  /\ localStorage = EmptyStorage
  /\ searchTerm = <<>>
  /\ homeLoading = TRUE
  /\ requests = <<>>
  /\ issued = 0
  /\ formData = EmptyForm
  /\ errors = NoErrors
  /\ isSubmitting = FALSE
  /\ onSubmitCalls = <<>>
  /\ profileFetches = <<>>

\* the adapter's authentication functions, over every setting
SpecAdapterAuth == InitAdapterAuth /\ [][NextAdapterAuth]_vars

NextSearchBar ==
  \/ \E value \in InputValues : HandleSearchChange(value)
  \/ TimerFires
  \/ HandleSubmit
  \/ ClearSearch

\* SearchBar after construction: useState(''), the first render's handler,
\* no timer, no call of onSearch
InitSearchBar ==
  /\ listings = <<>>
  /\ filteredListings = <<>>
  /\ propertyType = ""
  /\ sortBy = "newest"
  /\ showPetFriendlyOnly = FALSE
  /\ supabaseUrl = Undefined
  /\ supabaseAnonKey = Undefined
  /\ provider = "lib"
  /\ table = {}
  /\ lastCall = NoCall
  /\ lastResult = NoResult
  /\ searchBarTerm = <<>>
  /\ handleSearchChange = [timeoutId |-> NoTimer]
  /\ timers = <<>>
  /\ onSearchCalls = <<>>
  /\ events = 0
  /\ user = Null
  /\ role = Null
  /\ loading = TRUE
  /\ mounted = FALSE
  /\ currentUserPromise = NoPromise
  /\ subscribed = FALSE
  /\ lastSession = "none"
  /\ notifications = 0
  /\ backendSession = Null
  /\ loginError = ""
  /\ lastEvent = NoEvent
  /\ userBeforeReload = Null
  /\ ctxUser = NullObject
  /\ ctxProfile = NullObject
  /\ ctxLoading = TRUE
  /\ ctxMounted = FALSE
  /\ ctxPromise = NoContextPromise
  /\ ctxSubscribed = FALSE
  /\ ctxNotifications = 0
  /\ ctxLastEvent = NoEvent
  /\ ctxUserBeforeReload = NullObject
  /\ localStorage = EmptyStorage
  /\ searchTerm = <<>>
  /\ homeLoading = TRUE
  /\ requests = <<>>
  /\ issued = 0
  /\ formData = EmptyForm
  /\ errors = NoErrors
  /\ isSubmitting = FALSE
  /\ onSubmitCalls = <<>>
  /\ profileFetches = <<>>

\* the search bar under every order of user events and timer expiries
SpecSearchBar == InitSearchBar /\ [][NextSearchBar]_vars

NextAuth ==
  \/ Mount
  \/ \E outcome \in BackendOutcomes : GetCurrentUserSettles(outcome)
  \/ GetCurrentUserThen
  \/ \E session \in Sessions : AuthStateChange(session)
  \/ \E email \in Emails, password \in Passwords, outcome \in BackendOutcomes :
       LoginSubmit(email, password, outcome)
  \/ \E outcome \in BackendOutcomes : HandleLogout(outcome)
  \/ Reload

\* AuthProvider after construction: useState(null), useState(null),
\* useState(true), the effect has not run; any settings, and any session held
\* by the backend when the page loads
InitAuth ==
  /\ listings = <<>>
  /\ filteredListings = <<>>
  /\ propertyType = ""
  /\ sortBy = "newest"
  /\ showPetFriendlyOnly = FALSE
  /\ supabaseUrl \in UrlValues
  /\ supabaseAnonKey \in KeyValues
  /\ provider = "lib"
  /\ table = {}
  /\ lastCall = NoCall
  /\ lastResult = NoResult
  /\ searchBarTerm = <<>>
  /\ handleSearchChange = [timeoutId |-> NoTimer]
  /\ timers = <<>>
  /\ onSearchCalls = <<>>
  /\ events = 0
  /\ user = Null
  /\ role = Null
  /\ loading = TRUE
  /\ mounted = FALSE
  /\ currentUserPromise = NoPromise
  /\ subscribed = FALSE
  /\ lastSession = "none"
  /\ notifications = 0
  /\ backendSession \in Sessions
  /\ loginError = ""
  /\ lastEvent = NoEvent
  /\ userBeforeReload = Null
  /\ ctxUser = NullObject
  /\ ctxProfile = NullObject
  /\ ctxLoading = TRUE
  /\ ctxMounted = FALSE
  /\ ctxPromise = NoContextPromise
  /\ ctxSubscribed = FALSE
  /\ ctxNotifications = 0
  /\ ctxLastEvent = NoEvent
  /\ ctxUserBeforeReload = NullObject
  /\ localStorage = EmptyStorage
  /\ searchTerm = <<>>
  /\ homeLoading = TRUE
  /\ requests = <<>>
  /\ issued = 0
  /\ formData = EmptyForm
  /\ errors = NoErrors
  /\ isSubmitting = FALSE
  /\ onSubmitCalls = <<>>
  /\ profileFetches = <<>>

\* the session holder's startup under every setting, backend session and
\* order of promise resolution and notifications
SpecAuth == InitAuth /\ [][NextAuth]_vars

\* the settings the application is started with in the runs of both providers
SessionSettings ==
  {<<Undefined, Undefined>>, <<"https://paws.supabase.co", PlaceholderKey>>,
   <<"https://paws.supabase.co", "anon-key">>}

NextSession ==
  \/ Mount
  \/ \E outcome \in BackendOutcomes : GetCurrentUserSettles(outcome)
  \/ GetCurrentUserThen
  \/ \E session \in Sessions : AuthStateChange(session)
  \/ \E email \in Emails, password \in Passwords, outcome \in BackendOutcomes :
       LoginSubmit(email, password, outcome)
  \/ \E outcome \in BackendOutcomes : HandleLogout(outcome)
  \/ Reload
  \/ ContextMount
  \/ \E outcome \in BackendOutcomes : ContextGetCurrentUserSettles(outcome)
  \/ ContextGetCurrentUserThen
  \/ \E session \in Sessions : ContextAuthStateChange(session)
  \/ \E email \in AgentEmails, password \in Passwords, outcome \in BackendOutcomes :
       AgentLoginSubmit(email, password, outcome)
  \/ \E outcome \in BackendOutcomes : ContextLogout(outcome)
  \/ ContextReload
  \/ \E settings \in SessionSettings : Redeploy(settings[1], settings[2])

\* both providers after construction, nothing stored in localStorage
InitSession ==
  /\ listings = <<>>
  /\ filteredListings = <<>>
  /\ propertyType = ""
  /\ sortBy = "newest"
  /\ showPetFriendlyOnly = FALSE
  /\ \E settings \in SessionSettings :
       supabaseUrl = settings[1] /\ supabaseAnonKey = settings[2]
  /\ provider \in {"lib", "contexts"}
  /\ table = {}
  /\ lastCall = NoCall
  /\ lastResult = NoResult
  /\ searchBarTerm = <<>>
  /\ handleSearchChange = [timeoutId |-> NoTimer]
  /\ timers = <<>>
  /\ onSearchCalls = <<>>
  /\ events = 0
  /\ user = Null
  /\ role = Null
  /\ loading = TRUE
  /\ mounted = FALSE
  /\ currentUserPromise = NoPromise
  /\ subscribed = FALSE
  /\ lastSession = "none"
  /\ notifications = 0
  /\ backendSession = Null
  /\ loginError = ""
  /\ lastEvent = NoEvent
  /\ userBeforeReload = Null
  /\ ctxUser = NullObject
  /\ ctxProfile = NullObject
  /\ ctxLoading = TRUE
  /\ ctxMounted = FALSE
  /\ ctxPromise = NoContextPromise
  /\ ctxSubscribed = FALSE
  /\ ctxNotifications = 0
  /\ ctxLastEvent = NoEvent
  /\ ctxUserBeforeReload = NullObject
  /\ localStorage = EmptyStorage
  /\ searchTerm = <<>>
  /\ homeLoading = TRUE
  /\ requests = <<>>
  /\ issued = 0
  /\ formData = EmptyForm
  /\ errors = NoErrors
  /\ isSubmitting = FALSE
  /\ onSubmitCalls = <<>>
  /\ profileFetches = <<>>

\* the two session providers, each with its sign-in and sign-out pages, over
\* reloads and restarts with other settings
SpecSession == InitSession /\ [][NextSession]_vars

NextProfile ==
  \/ ProfileMount
  \/ \E outcome \in BackendOutcomes : ProfileGetCurrentUserSettles(outcome)
  \/ ProfileGetCurrentUserThen
  \/ \E session \in Sessions : ProfileAuthStateChange(session)
  \/ \E i \in 1..MaxFetches, outcome \in BackendOutcomes :
       ProfileFetchSettles(i, outcome)
  \/ \E outcome \in BackendOutcomes : ProfileSignOut(outcome)

\* the profile-based provider after construction; the backend may hold a
\* session of an earlier visit
InitProfile ==
  /\ listings = <<>>
  /\ filteredListings = <<>>
  /\ propertyType = ""
  /\ sortBy = "newest"
  /\ showPetFriendlyOnly = FALSE
  /\ \E settings \in SessionSettings :
       supabaseUrl = settings[1] /\ supabaseAnonKey = settings[2]
  /\ provider = "profile"
  /\ table = {}
  /\ lastCall = NoCall
  /\ lastResult = NoResult
  /\ searchBarTerm = <<>>
  /\ handleSearchChange = [timeoutId |-> NoTimer]
  /\ timers = <<>>
  /\ onSearchCalls = <<>>
  /\ events = 0
  /\ user = Null
  /\ role = Null
  /\ loading = TRUE
  /\ mounted = FALSE
  /\ currentUserPromise = NoPromise
  /\ subscribed = FALSE
  /\ lastSession = "none"
  /\ notifications = 0
  /\ backendSession \in Sessions
  /\ loginError = ""
  /\ lastEvent = NoEvent
  /\ userBeforeReload = Null
  /\ ctxUser = NullObject
  /\ ctxProfile = NullObject
  /\ ctxLoading = TRUE
  /\ ctxMounted = FALSE
  /\ ctxPromise = NoContextPromise
  /\ ctxSubscribed = FALSE
  /\ ctxNotifications = 0
  /\ ctxLastEvent = NoEvent
  /\ ctxUserBeforeReload = NullObject
  /\ localStorage = EmptyStorage
  /\ searchTerm = <<>>
  /\ homeLoading = TRUE
  /\ requests = <<>>
  /\ issued = 0
  /\ formData = EmptyForm
  /\ errors = NoErrors
  /\ isSubmitting = FALSE
  /\ onSubmitCalls = <<>>
  /\ profileFetches = <<>>

\* the profile-based provider over its startup check, notifications, profile
\* fetches and sign-outs
SpecProfile == InitProfile /\ [][NextProfile]_vars

NextHome ==
  \/ HomeMount
  \/ \E term \in HomeTerms : handleSearch(term)
  \/ \E i \in 1..MaxRequests, outcome \in BackendOutcomes : RequestSettles(i, outcome)
  \/ \E value \in HomePropertyTypes : SetPropertyType(value)
  \/ \E value \in HomeSortOptions : SetSortBy(value)
  \/ \E value \in BOOLEAN : SetShowPetFriendlyOnly(value)

\* Home before its first effect has run
InitHome ==
  /\ listings = <<>>
  /\ filteredListings = <<>>
  /\ propertyType = ""
  /\ sortBy = "newest"
  /\ showPetFriendlyOnly = FALSE
  /\ \E settings \in SessionSettings :
       supabaseUrl = settings[1] /\ supabaseAnonKey = settings[2]
  /\ provider = "lib"
  /\ table \in HomeTables
  /\ lastCall = NoCall
  /\ lastResult = NoResult
  /\ searchBarTerm = <<>>
  /\ handleSearchChange = [timeoutId |-> NoTimer]
  /\ timers = <<>>
  /\ onSearchCalls = <<>>
  /\ events = 0
  /\ user = Null
  /\ role = Null
  /\ loading = TRUE
  /\ mounted = FALSE
  /\ currentUserPromise = NoPromise
  /\ subscribed = FALSE
  /\ lastSession = "none"
  /\ notifications = 0
  /\ backendSession = Null
  /\ loginError = ""
  /\ lastEvent = NoEvent
  /\ userBeforeReload = Null
  /\ ctxUser = NullObject
  /\ ctxProfile = NullObject
  /\ ctxLoading = TRUE
  /\ ctxMounted = FALSE
  /\ ctxPromise = NoContextPromise
  /\ ctxSubscribed = FALSE
  /\ ctxNotifications = 0
  /\ ctxLastEvent = NoEvent
  /\ ctxUserBeforeReload = NullObject
  /\ localStorage = EmptyStorage
  /\ searchTerm = <<>>
  /\ homeLoading = TRUE
  /\ requests = <<>>
  /\ issued = 0
  /\ formData = EmptyForm
  /\ errors = NoErrors
  /\ isSubmitting = FALSE
  /\ onSubmitCalls = <<>>
  /\ profileFetches = <<>>

\* Home loading, searching and filtering against the adapter
SpecHome == InitHome /\ [][NextHome]_vars

\* a step in which the awaited call of one of the requests in flight settles
SomeRequestSettles ==
  \E i \in 1..Len(requests) :
    requests' = [j \in 1..(Len(requests) - 1) |->
                   IF j < i THEN requests[j] ELSE requests[j + 1]]

\* the same where the effect of the first render runs and every request in
\* flight settles in the end
SpecHomeFair ==
  /\ InitHome
  /\ [][NextHome]_vars
  /\ WF_vars(HomeMount)
  /\ WF_requests(SomeRequestSettles)

NextEnquiry ==
  \/ \E value \in EnquiryNames : handleChange("name", value)
  \/ \E value \in EnquiryEmails : handleChange("email", value)
  \/ \E value \in EnquiryMessages : handleChange("message", value)
  \/ EnquirySubmit
  \/ \E outcome \in {"data", "throw"} : OnSubmitSettles(outcome)
  \/ handleClose

\* the modal after its first render, the other components at rest
InitEnquiry ==
  /\ listings = <<>>
  /\ filteredListings = <<>>
  /\ propertyType = ""
  /\ sortBy = "newest"
  /\ showPetFriendlyOnly = FALSE
  /\ supabaseUrl = Undefined
  /\ supabaseAnonKey = Undefined
  /\ provider = "lib"
  /\ table = {}
  /\ lastCall = NoCall
  /\ lastResult = NoResult
  /\ searchBarTerm = <<>>
  /\ handleSearchChange = [timeoutId |-> NoTimer]
  /\ timers = <<>>
  /\ onSearchCalls = <<>>
  /\ events = 0
  /\ user = Null
  /\ role = Null
  /\ loading = TRUE
  /\ mounted = FALSE
  /\ currentUserPromise = NoPromise
  /\ subscribed = FALSE
  /\ lastSession = "none"
  /\ notifications = 0
  /\ backendSession = Null
  /\ loginError = ""
  /\ lastEvent = NoEvent
  /\ userBeforeReload = Null
  /\ ctxUser = NullObject
  /\ ctxProfile = NullObject
  /\ ctxLoading = TRUE
  /\ ctxMounted = FALSE
  /\ ctxPromise = NoContextPromise
  /\ ctxSubscribed = FALSE
  /\ ctxNotifications = 0
  /\ ctxLastEvent = NoEvent
  /\ ctxUserBeforeReload = NullObject
  /\ localStorage = EmptyStorage
  /\ searchTerm = <<>>
  /\ homeLoading = TRUE
  /\ requests = <<>>
  /\ issued = 0
  /\ formData = EmptyForm
  /\ errors = NoErrors
  /\ isSubmitting = FALSE
  /\ onSubmitCalls = <<>>
  /\ profileFetches = <<>>

\* the enquiry form: typing, submitting, closing
SpecEnquiry == InitEnquiry /\ [][NextEnquiry]_vars

\* ---------------------------------------------------------------------------
\* Properties of the pipeline
\* ---------------------------------------------------------------------------
\* the predicate the filter table gives for a property-type filter
TablePredicate(filter, id) ==
  CASE filter = "studio" -> Rec(id).Bedrooms /= UndefNum /\ Rec(id).Bedrooms = 0
    [] filter = "one-bed" -> Rec(id).Bedrooms /= UndefNum /\ Rec(id).Bedrooms = 1
    [] filter = "two-bed" -> Rec(id).Bedrooms /= UndefNum /\ Rec(id).Bedrooms = 2
    [] filter = "three-bed" -> Rec(id).Bedrooms /= UndefNum /\ Rec(id).Bedrooms >= 3
    [] filter = "house-share" -> Rec(id).HouseShare = JsTrue
    [] filter = "furnished" -> Rec(id).Furnished = JsTrue
    [] filter = "unfurnished" -> Rec(id).Furnished = JsFalse
    [] filter = "" -> TRUE

\* out holds exactly the elements of the set expected, each once
ExactlyThose(out, expected) ==
  /\ Range(out) = expected
  /\ Len(out) = Cardinality(expected)

\* the listings of s that carry a Listed timestamp are in descending order
NewestFirst(s) ==
  \A i, j \in 1..Len(s) :
    (i < j /\ Rec(s[i]).Listed /= UndefNum /\ Rec(s[j]).Listed /= UndefNum)
      => Rec(s[i]).Listed >= Rec(s[j]).Listed

\* the filter part of C1 alone: with the pet-friendly flag off the output
\* holds exactly the listings that satisfy the filter's predicate
FilterIsExact ==
  ~showPetFriendlyOnly =>
    ExactlyThose(filteredListings,
                 {id \in Range(listings) : TablePredicate(propertyType, id)})

\* C1: with the pet-friendly flag off and sort key 'newest', the output is
\* exactly the listings that satisfy the property-type filter's predicate
\* (all of them when the filter is empty), ordered by Listed descending.
C1_FilterExactNewestFirst ==
  (~showPetFriendlyOnly /\ sortBy = "newest") =>
    /\ ExactlyThose(filteredListings,
                    {id \in Range(listings) : TablePredicate(propertyType, id)})
    /\ NewestFirst(filteredListings)

\* s contains word as a substring when letter case is ignored
ContainsIgnoringCase(s, word) ==
  \E i \in 1..(Len(s) + 1) :
    /\ i + Len(word) - 1 <= Len(s)
    /\ \A k \in 1..Len(word) : LowerChar(s[i + k - 1]) = LowerChar(word[k])

\* one of the three pet-friendly conditions holds of the listing
PetQualifies(id) ==
  \/ (Rec(id).PetParkingCosts /= UndefNum /\ Rec(id).PetParkingCosts > 0)
  \/ Rec(id).Garden = JsTrue
  \/ /\ Rec(id).Description /= UndefStr
     /\ \E word \in {<<"p","e","t">>, <<"d","o","g">>, <<"c","a","t">>} :
          ContainsIgnoringCase(Rec(id).Description, word)

\* C2: with the pet-friendly flag set, under every sort key, the output holds
\* no listing that meets none of the three pet-friendly conditions, and every
\* input listing that meets one of them and the property-type filter is kept.
C2_PetFriendlyFilter ==
  showPetFriendlyOnly =>
    /\ \A id \in Range(filteredListings) : PetQualifies(id)
    /\ \A id \in Range(listings) :
         (PetQualifies(id) /\ TablePredicate(propertyType, id))
           => id \in Range(filteredListings)

\* C2 witness: the flag is set, a listing kept only for its upper-case
\* description is in the output and a non-qualifying listing was dropped
C2_Witness ==
  /\ showPetFriendlyOnly
  /\ 8 \in Range(filteredListings)
  /\ 7 \in Range(listings)
  /\ 7 \notin Range(filteredListings)

\* a precedes-or-equals b under the sort key's comparator
Leq(sortBy_, a, b) == SortCompare(sortBy_, a, b) <= 0

\* the comparator orders the elements of S totally (a total preorder)
TotalOrderOn(sortBy_, S) ==
  \A a, b, c \in S :
    /\ Leq(sortBy_, a, b) \/ Leq(sortBy_, b, a)
    /\ (Leq(sortBy_, a, b) /\ Leq(sortBy_, b, c)) => Leq(sortBy_, a, c)

\* running the pipeline on its own output gives the same sequence
SortIsIdempotent ==
  \A again \in applyFiltersAndSort(filteredListings, propertyType,
                                    showPetFriendlyOnly, sortBy) :
    again.filteredListings = filteredListings

\* C3: under each sort key the comparator is a total order over the listing
\* collection, absent Listed, Rent or Bedrooms included, and sorting is
\* idempotent.
C3_TotalOrderIdempotent ==
  /\ TotalOrderOn(sortBy, Range(listings))
  /\ SortIsIdempotent

\* C4: a run of the pipeline leaves the raw listings collection as it was,
\* whatever the filter, the flag and the sort key.
C4_InputNotMutated ==
  [][listings /= <<>> => listings' = listings]_vars

\* C4 witness: a run reordered the output while the input kept its order
C4_Witness ==
  /\ Len(listings) >= 2
  /\ Len(filteredListings) = Len(listings)
  /\ filteredListings /= listings
  /\ sortBy /= "newest"

\* ---------------------------------------------------------------------------
\* Properties of the adapter
\* ---------------------------------------------------------------------------
\* the setting is present and not the empty string
NonEmpty(v) == v /= Undefined /\ v /= ""

\* both settings are non-empty and neither is its placeholder
RealCredentials ==
  /\ NonEmpty(supabaseUrl) /\ NonEmpty(supabaseAnonKey)
  /\ supabaseUrl /= PlaceholderUrl /\ supabaseAnonKey /= PlaceholderKey

\* C5 as stated: false for the two placeholders or an absent/empty setting,
\* true for every other pair of non-empty URL and key.
C5_TrueForEveryOtherPair ==
  lastCall.op /= "none" =>
    /\ ( \/ (supabaseUrl = PlaceholderUrl /\ supabaseAnonKey = PlaceholderKey)
         \/ ~NonEmpty(supabaseUrl) \/ ~NonEmpty(supabaseAnonKey) )
         => ~lastCall.configured
    /\ ( /\ NonEmpty(supabaseUrl) /\ NonEmpty(supabaseAnonKey)
         /\ ~(supabaseUrl = PlaceholderUrl /\ supabaseAnonKey = PlaceholderKey) )
         => lastCall.configured

\* C5 (amended): isConfigured() is true exactly when both settings are
\* non-empty and neither equals its placeholder; one placeholder (or one
\* absent/empty setting) is enough to make it false.
C5_ConfiguredIffNeitherPlaceholder ==
  lastCall.op /= "none" => (lastCall.configured <=> RealCredentials)

\* C5 witness: a call made with a real URL and the placeholder key took the
\* unconfigured path
C5_Witness ==
  /\ lastCall.op = "fetchListings"
  /\ supabaseUrl = "https://paws.supabase.co"
  /\ supabaseAnonKey = PlaceholderKey
  /\ ~lastCall.configured
  /\ lastResult = Returned(FixtureIds)

\* C6: fetchListings never throws; unconfigured, on a reported backend error
\* and on a thrown backend call it returns the five fixtures, otherwise the
\* backend's rows.
C6_FetchNeverFails ==
  lastCall.op = "fetchListings" =>
    /\ lastResult.kind = "return"
    /\ IF ~RealCredentials \/ lastCall.response.kind \in {"error", "throw"}
       THEN /\ lastResult.value = FixtureIds
            /\ Len(lastResult.value) = 5
       ELSE /\ lastResult.value = lastCall.response.data
            /\ Range(lastResult.value) = table

\* C6 witness: a configured call whose backend call threw returned the fixtures
C6_Witness ==
  /\ lastCall.op = "fetchListings"
  /\ RealCredentials
  /\ lastCall.response.kind = "throw"
  /\ lastResult = Returned(FixtureIds)

\* the listings of source whose Location contains the term, case ignored
LocationMatches(source, searchTerm_) ==
  {id \in source : /\ Rec(id).Location /= UndefStr
                   /\ ContainsIgnoringCase(Rec(id).Location, searchTerm_)}

\* C7: searchListingsByLocation(term) returns exactly the listings whose
\* Location contains term as a case-insensitive substring, newest first (the
\* fixtures in mock mode), and the empty list on a backend error or throw.
C7_SearchBySubstring ==
  lastCall.op = "searchListingsByLocation" =>
    /\ lastResult.kind = "return"
    /\ Len(lastResult.value) = Cardinality(Range(lastResult.value))
    /\ IF ~RealCredentials
       THEN /\ Range(lastResult.value) =
                 LocationMatches(Range(FixtureIds), lastCall.searchTerm)
            /\ NewestFirst(lastResult.value)
       ELSE IF lastCall.response.kind = "data"
       THEN /\ Range(lastResult.value) = LocationMatches(table, lastCall.searchTerm)
            /\ NewestFirst(lastResult.value)
       ELSE lastResult.value = <<>>

\* ---------------------------------------------------------------------------
\* Properties of the search bar
\* ---------------------------------------------------------------------------
\* C8: each input change cancels the timer the previous change started, so
\* at most one timer is pending at any time and a burst of changes leads to a
\* single timer call of onSearch, with the last value.
C8_DebounceCancelsPrevious == Len(timers) <= 1

\* ---------------------------------------------------------------------------
\* Properties of the session holder
\* ---------------------------------------------------------------------------
\* the role the data model derives from a user
DerivedRole(u) ==
  CASE u = Null -> Null
    [] u = "user-admin" -> "admin"
    [] u = "user-agent" -> "agent"
    [] OTHER -> "tenant"

\* C9: configured, once an auth-change notification has been applied, user
\* and role are those of the most recent notification's session.
C9_SubscriptionIsSoleSource ==
  (RealCredentials /\ lastSession /= "none") =>
    /\ user = lastSession
    /\ role = DerivedRole(lastSession)

\* C10: loading starts true and is not false before the result of the
\* startup getCurrentUser() has been applied to user and role.
C10_LoadingUntilStartupSettled ==
  /\ ~mounted => loading
  /\ ~loading => currentUserPromise.state = "applied"

\* C11: configured, in every state of the session holder the role is a
\* function of the user: null without a user, else the role of the user's
\* metadata, 'tenant' when the metadata has none.
C11_RoleIsFunctionOfUser ==
  RealCredentials => role = DerivedRole(user)

\* C11 witness: configured, a notification brought a user without a role in
\* the metadata and the role is the default
C11_Witness ==
  /\ RealCredentials
  /\ lastEvent.op = "authStateChange"
  /\ user = "user-plain"
  /\ role = "tenant"

\* word occurs in s, character by character
Contains(s, word) ==
  \E i \in 1..(Len(s) - Len(word) + 1) :
    \A k \in 1..Len(word) : s[i + k - 1] = word[k]

\* the role the claim derives from an e-mail address
RoleFromEmail(email) ==
  IF Contains(email, <<"a","d","m","i","n">>) THEN "admin"
  ELSE IF Contains(email, <<"a","g","e","n","t">>) THEN "agent"
  ELSE "tenant"

\* C12: in mock mode a sign-in with a non-empty e-mail and password succeeds
\* and establishes the user with id 'mock-user', with role 'admin' if the
\* e-mail contains 'admin', else 'agent' if it contains 'agent', else 'tenant'.
C12_MockSignInRoleFromEmail ==
  [][\A email \in Emails, password \in Passwords :
       ( /\ ~RealCredentials
         /\ email /= <<>> /\ password /= <<>>
         /\ \E outcome \in BackendOutcomes : LoginSubmit(email, password, outcome) )
       => /\ loginError' = ""
          /\ user' = "mock-user"
          /\ role' = RoleFromEmail(email)]_vars

\* C12 witness: mock mode, signed in with an e-mail that contains both words
C12_Witness ==
  /\ ~RealCredentials
  /\ lastEvent = [op |-> "handleSubmit",
                  email |-> <<"a","g","e","n","t","a","d","m","i","n">>]
  /\ loginError = ""
  /\ user = "mock-user"
  /\ role = "admin"

\* C13: in mock mode a sign-out leaves user and role (profile) null and no
\* mock user in localStorage, and from then on, through reload and startup,
\* the holder stays unauthenticated until the next sign-in.
C13_MockSignOutLeavesNothingToRestore ==
  [][~RealCredentials =>
       /\ (\E outcome \in BackendOutcomes : HandleLogout(outcome))
            => (user' = Null /\ role' = Null)
       /\ (\E outcome \in BackendOutcomes : ContextLogout(outcome))
            => /\ ctxUser' = NullObject /\ ctxProfile' = NullObject
               /\ localStorage'.mockUser = NoItem
       /\ ( /\ user = Null /\ role = Null
            /\ ~\E email \in Emails, password \in Passwords,
                   outcome \in BackendOutcomes :
                 LoginSubmit(email, password, outcome) )
            => (user' = Null /\ role' = Null)
       /\ ( /\ ctxUser = NullObject /\ localStorage.mockUser = NoItem
            /\ ~\E email \in AgentEmails, password \in Passwords,
                   outcome \in BackendOutcomes :
                 AgentLoginSubmit(email, password, outcome) )
            => (ctxUser' = NullObject /\ localStorage'.mockUser = NoItem)]_vars

\* C13 witness: mock mode, a mock user that had been restored after a reload
\* was signed out, and nothing is stored any more
C13_Witness ==
  /\ ~RealCredentials
  /\ ctxLastEvent.op = "logout"
  /\ ctxUserBeforeReload /= NullObject
  /\ ctxUser = NullObject
  /\ ctxProfile = NullObject
  /\ localStorage.mockUser = NoItem

\* C14: in mock mode, a holder that held a mock user when the page was
\* reloaded holds the same user again once startup has run, with the role
\* of that user's metadata.
C14_MockUserSurvivesReload ==
  ~RealCredentials =>
    /\ (lastEvent.op = "startup" /\ userBeforeReload /= Null)
         => (user = userBeforeReload /\ role = DerivedRole(userBeforeReload))
    /\ (ctxLastEvent.op = "startup" /\ ctxUserBeforeReload /= NullObject)
         => (ctxUser = ctxUserBeforeReload /\ ctxProfile = ctxUser.user_metadata)

\* C15: the user becomes the stored mock user only when the adapter is
\* unconfigured and no user is set; configured, never.
C15_RestoreOnlyWhenUnconfigured ==
  [][( /\ ctxUser' /= ctxUser
       /\ ctxUser' /= NullObject
       /\ ctxUser'.id = "mock-user-id" )
     => (~RealCredentials /\ ctxUser = NullObject)]_vars

\* C16: in mock mode, a sign-in or sign-out that changes the holder's user or
\* role changes both in the same step and leaves loading false; after the
\* sign-out (updateAuthState(null, null)) the holder is unauthenticated.
C16_UpdateAuthStateAtomic ==
  [][( /\ ~RealCredentials
       /\ \/ \E email \in Emails, password \in Passwords,
                outcome \in BackendOutcomes :
              LoginSubmit(email, password, outcome)
          \/ \E outcome \in BackendOutcomes : HandleLogout(outcome)
       /\ (user' /= user \/ role' /= role) )
     => /\ user' /= user /\ role' /= role
        /\ ~loading'
        /\ lastEvent'.op = "handleLogout"
             => (user' = Null /\ role' = Null /\ ~isAuthenticated')]_vars

\* C16 witness: mock mode, updateAuthState(null, null) has just run
C16_Witness ==
  /\ ~RealCredentials
  /\ lastEvent.op = "handleLogout"
  /\ user = Null
  /\ role = Null
  /\ ~loading
  /\ ~isAuthenticated

\* the authentication functions of the adapter, in both of its versions
AuthOps ==
  {"signUp", "signIn", "signOut", "getCurrentUser", "signUpUser", "signInUser",
   "signOutUser"}

\* C17: unconfigured, sign-up, sign-in, sign-out and getCurrentUser make no
\* backend call and return a mock result without an error: the user with id
\* 'mock-user' for sign-up and sign-in, nothing for sign-out, null for
\* getCurrentUser.
C17_UnconfiguredAuthIsMock ==
  (lastCall.op \in AuthOps /\ ~RealCredentials) =>
    /\ lastResult.kind = "return"
    /\ lastResult.backendCalls = <<>>
    /\ lastCall.op = "getCurrentUser" => lastResult.value.user = NullObject
    /\ lastCall.op /= "getCurrentUser" => lastResult.value.error = Null
    /\ lastCall.op \in {"signUp", "signIn"} =>
         /\ lastResult.value.data /= AbsentObject
         /\ lastResult.value.data.user.id = "mock-user"
    /\ lastCall.op \in {"signUpUser", "signInUser"} =>
         lastResult.value.user.id = "mock-user"

\* C18: configured, signUp, signIn and signOut return and never throw; the
\* result's error is non-null when the backend reported a failure or the
\* backend call threw, and null when it succeeded.
C18_ConfiguredAuthNeverThrows ==
  (lastCall.op \in {"signUp", "signIn", "signOut"} /\ RealCredentials) =>
    /\ lastResult.kind = "return"
    /\ lastCall.response.kind \in {"error", "throw"}
         => lastResult.value.error /= Null
    /\ lastCall.response.kind = "data" => lastResult.value.error = Null

\* C18 witness: a configured signIn whose backend call threw returned an error
C18_Witness ==
  /\ lastCall.op = "signIn"
  /\ RealCredentials
  /\ lastCall.response.kind = "throw"
  /\ lastResult.kind = "return"
  /\ lastResult.value.error = UnexpectedError

\* the results fetchListings() can return
FullSets ==
  {fetchListings(supabaseUrl, supabaseAnonKey, response).value :
     response \in UNION {SelectAllResponses(table, outcome) :
                           outcome \in BackendOutcomes}}

\* C19: after handleSearch was last called with an empty or whitespace-only
\* term and every request has settled, the search term is empty and the
\* listing set is the full set fetchListings returns.
C19_ClearedSearchEndsWithFullSet ==
  (issued >= 2 /\ trim(searchTerm) = <<>> /\ requests = <<>>) =>
    /\ searchTerm = <<>>
    /\ listings \in FullSets

\* C20: filteredListings is a result of the pipeline on the current listings
\* and the current property type, pet-friendly flag and sort key.
C20_DisplayedListIsDerived ==
  \E r \in applyFiltersAndSort(listings, propertyType, showPetFriendlyOnly, sortBy) :
    filteredListings = r.filteredListings

\* C20 witness: after a search and changes of two controls the displayed list
\* is a proper, non-empty part of the listings
C20_Witness ==
  /\ issued >= 2
  /\ requests = <<>>
  /\ propertyType /= ""
  /\ sortBy /= "newest"
  /\ filteredListings /= <<>>
  /\ Len(filteredListings) < Len(listings)

\* s has a run of non-space characters that holds an '@' after its first
\* character and, at least two places later, a '.' before its last character
HasEmailShape(s) ==
  \E i, k \in 1..Len(s) :
    /\ \A j \in i..k : s[j] /= " "
    /\ \E a \in (i + 1)..k, b \in i..(k - 1) :
         s[a] = "@" /\ s[b] = "." /\ b >= a + 2

\* a string with a character that is not a space
NonBlank(s) == \E i \in 1..Len(s) : s[i] /= " "

\* the form the claim lets through
EnquiryIsValid ==
  /\ NonBlank(formData.name)
  /\ NonBlank(formData.email)
  /\ NonBlank(formData.message)
  /\ HasEmailShape(formData.email)

\* C21: onSubmit is called only with a form whose name, e-mail and message
\* are non-empty after trimming and whose e-mail has the shape non-space
\* characters, '@', non-space characters, '.', non-space characters; a submit
\* of any other form sets a field error and does not call onSubmit.
C21_EnquiryValidatedBeforeSubmit ==
  [][/\ onSubmitCalls' /= onSubmitCalls => EnquiryIsValid
     /\ (EnquirySubmit /\ ~EnquiryIsValid)
          => /\ onSubmitCalls' = onSubmitCalls
             /\ errors'.name /= "" \/ errors'.email /= "" \/ errors'.message /= ""
             /\ ~isSubmitting']_vars

\* C21 witness: a form with spaces around a valid e-mail and message has been
\* submitted, and onSubmit got the trimmed values
C21_Witness ==
  /\ isSubmitting
  /\ formData.email = <<" ","x","@","y",".","z">>
  /\ onSubmitCalls /= <<>>
  /\ onSubmitCalls[Len(onSubmitCalls)].email = <<"x","@","y",".","z">>
  /\ onSubmitCalls[Len(onSubmitCalls)].message = <<"h","i">>

\* a listing's fields with the default of an absent one
BedroomsOrZero(id) == IF Rec(id).Bedrooms = UndefNum THEN 0 ELSE Rec(id).Bedrooms
RentOrZero(id) == IF Rec(id).Rent = UndefNum THEN 0 ELSE Rec(id).Rent
IsFurnished(id) == Rec(id).Furnished = JsTrue

\* the displayed list is in the order of the sort key, absent Bedrooms and
\* Rent counting as 0
SortedWithDefaults ==
  \A i, j \in 1..Len(filteredListings) :
    i < j =>
      LET a == filteredListings[i]
          b == filteredListings[j]
      IN /\ sortBy = "bedrooms-asc" => BedroomsOrZero(a) <= BedroomsOrZero(b)
         /\ sortBy = "bedrooms-desc" => BedroomsOrZero(a) >= BedroomsOrZero(b)
         /\ sortBy = "cheapest" => RentOrZero(a) <= RentOrZero(b)
         /\ sortBy = "expensive" => RentOrZero(a) >= RentOrZero(b)

\* C22: a listing without Bedrooms counts as one with 0 bedrooms (it is
\* shown under 'studio' and sorts as 0), a listing without Furnished counts
\* as not furnished (it is shown under 'unfurnished'), and an absent Rent
\* sorts as 0.
C22_AbsentFieldsAreDefaults ==
  /\ propertyType = "studio" =>
       \A id \in Range(listings) :
         (BedroomsOrZero(id) = 0 /\ (showPetFriendlyOnly => PetQualifies(id)))
           => id \in Range(filteredListings)
  /\ propertyType = "unfurnished" =>
       \A id \in Range(listings) :
         (~IsFurnished(id) /\ (showPetFriendlyOnly => PetQualifies(id)))
           => id \in Range(filteredListings)
  /\ SortedWithDefaults

\* C23: handleSearch leaves every request in flight where it is and adds
\* its own behind them, so the responses of an earlier and a later search
\* can be applied in either order.
C23_NewerSearchDoesNotCancel ==
  [][(\E term \in HomeTerms : handleSearch(term))
       => /\ Len(requests') = Len(requests) + 1
          /\ SubSeq(requests', 1, Len(requests)) = requests]_vars

\* C23 witness: configured, against the table of rows 7 ('Soho, W1') and 8
\* ('Camden Town'), every request has settled, the search term is 'cam' and
\* the listings are the result for 'w1'
C23_Witness ==
  /\ RealCredentials
  /\ table = {7, 8}
  /\ requests = <<>>
  /\ searchTerm = <<"c","a","m">>
  /\ listings = <<7>>

\* C27: loading is true whenever a listing request is in flight.
C27_LoadingWhileInFlight ==
  requests /= <<>> => homeLoading

\* C29: when the first effect runs and every request in flight settles in
\* the end, loading ends false and stays false; and no step that leaves the
\* requests in flight as they are takes loading from true to false.
C29_LoadingEventuallyFalse ==
  /\ <>[](~homeLoading)
  /\ [][(homeLoading /\ requests' = requests) => homeLoading']_vars

\* C29 witness: after the load and a search every request has settled and
\* loading is false
C29_Witness ==
  /\ issued >= 2
  /\ requests = <<>>
  /\ ~homeLoading
  /\ trim(searchTerm) /= <<>>

\* the place of x in the sequence s of distinct elements
IndexIn(s, x) == CHOOSE i \in 1..Len(s) : s[i] = x

\* listings that the comparator of the sort key reports as equal are
\* displayed in the order they have in the listings
EqualKeepInputOrder ==
  \A i, j \in 1..Len(filteredListings) :
    (i < j /\ SortCompare(sortBy, filteredListings[i], filteredListings[j]) = 0)
      => IndexIn(listings, filteredListings[i]) < IndexIn(listings, filteredListings[j])

\* the five fixtures with the pet-friendly flag and 'bedrooms-desc' are
\* displayed as 3, 1, 4, 5, 2
FixtureScenario ==
  ( /\ listings = FixtureIds
    /\ propertyType = ""
    /\ showPetFriendlyOnly
    /\ sortBy = "bedrooms-desc" )
    => filteredListings = <<3, 1, 4, 5, 2>>

C25_UserNullIffRoleNull ==
  /\ user = Null <=> role = Null
  /\ (isAdmin \/ isAgent \/ isTenant) => isAuthenticated
  /\ ~(isAdmin /\ isAgent) /\ ~(isAdmin /\ isTenant) /\ ~(isAgent /\ isTenant)

\* C25 witness: a mock sign-in as agent, isAgent alone is true
C25_Witness ==
  /\ user = MockUserId
  /\ isAgent /\ ~isAdmin /\ ~isTenant
  /\ isAuthenticated

\* C26: in mock mode, a step that takes the mock user or its role from the
\* holder is a sign-out (or the reload of the page, which starts the holder
\* anew); no step of the startup protocol does.
C26_StartupKeepsMockUser ==
  [][( /\ ~RealCredentials
       /\ user = MockUserId
       /\ (user' /= user \/ role' /= role) )
     => \/ \E outcome \in BackendOutcomes : HandleLogout(outcome)
        \/ Reload]_vars

\* C26 witness: mock mode, after a reload and the startup that followed it a
\* second mock sign-in holds
C26_Witness ==
  /\ ~RealCredentials
  /\ userBeforeReload = MockUserId
  /\ currentUserPromise.state = "applied"
  /\ user = MockUserId
  /\ role /= Null

\* C30: a configured signUp inserts the profile row only after the auth
\* sign-up returned a non-null user, and whatever the insert does, a sign-up
\* the auth backend accepted is returned with error null.
C30_ProfileAfterSignUpOnly ==
  (lastCall.op = "signUp" /\ lastCall.configured) =>
    /\ (\E i \in 1..Len(lastResult.backendCalls) :
          lastResult.backendCalls[i] = "profiles.insert")
         => /\ lastCall.response.kind = "data"
            /\ lastCall.response.data /= Null
            /\ lastResult.backendCalls = <<"auth.signUp", "profiles.insert">>
    /\ lastCall.response.kind = "data"
         => /\ lastResult.kind = "return"
            /\ lastResult.value.error = Null

\* C30 witness: the auth sign-up returned a user, the profile insert failed,
\* and signUp returned the user with error null
C30_Witness ==
  /\ lastCall.op = "signUp"
  /\ lastCall.configured
  /\ lastCall.response.kind = "data"
  /\ lastCall.response.data /= Null
  /\ lastCall.profileResponse.kind \in {"error", "throw"}
  /\ lastResult.backendCalls = <<"auth.signUp", "profiles.insert">>
  /\ lastResult.value.error = Null

\* C28: in the profile-based provider profile is null whenever user is null,
\* under every interleaving of notifications, the startup check and the
\* completions of the profile fetches.
C28_ProfileNullWhenUserNull ==
  (provider = "profile" /\ ctxUser = NullObject) => ctxProfile = NullObject
====
